---- MODULE Spec2Model ----
(***************************************************************************)
(* A model of the kahmi build engine core: the Task life cycle             *)
(* (model/task.py, core/*_action.py, executors/default.py) and the         *)
(* Property/Provider graph (model/property.py).                            *)
(*                                                                         *)
(* Spec      : the Task life cycle (performs, before_execute, execute,     *)
(*             reraise_error, DefaultExecutor.run).                        *)
(* DepSpec   : dependencies through properties.                            *)
(* FinSpec   : finalization of properties.                                 *)
(* EvalSpec  : evaluation of providers.                                    *)
(* GraphSpec : the BuildGraph and the order it gives (build_graph.py).     *)
(* ExecSpec  : the Executor, task inputs and the state tracker             *)
(*             (executors/default.py, task.py, state_tracker.py).          *)
(* TrackerSpec, HashSpec : the state tracker and TaskInputs.md5sum.        *)
(* StreamSpec : stream_func_async, the worker's output through the FIFO.   *)
(* TreeSpec  : registrations in the project tree (model/project.py).       *)
(* SelectSpec : task selectors, Project.resolve_tasks.                     *)
(***************************************************************************)
EXTENDS Integers, Sequences, FiniteSets, TLC

VARIABLES
  tasks,    \* TaskIds -> the execution state of each Task object
  ran,      \* history: per task, the actions whose execute() was entered
  assigned, \* history: per task, whether an action assigned task.did_work
  outcome,  \* the last call made and how it ended
  props,    \* property id -> the fields of each Property object
  hist,     \* history: per property, what finalize()/finalize_on_read() saw
  graph,    \* the BuildGraph of the environment: tasks seen, edges, selection
  order,    \* what iterating the last tasks_in_order() result gave
  events,   \* the calls the ExecListener has received, in order
  store,    \* the state tracker's persistent store: task path -> checksum
  build,    \* history: whether a build went before, and how it ended
  tree,     \* the project tree of the environment: children, tasks, extensions
  stream,   \* one stream_func_async call: the FIFO, the worker and the parent
  hash      \* two TaskInputs objects and the files their paths name

taskVars == <<tasks, ran, assigned>>
propVars == <<props, hist>>
moreVars == <<tree, stream, hash>>
buildVars == <<graph, order, events, store, build, tree, stream, hash>>
vars ==
  <<tasks, ran, assigned, outcome, props, hist, graph, order, events, store, build,
    tree, stream, hash>>

-----------------------------------------------------------------------------
(* Bounds *)

MaxActions == 3
MaxVal == 2
MaxFileLen == 1
ReadSize == 1
MaxOutput == 3
FifoReadSize == 2
PipeCapacity == 1
MaxAdds == 2
MaxTasks == 2
MaxSelectors == 2

-----------------------------------------------------------------------------
(* Tasks *)

TaskIds == {"t1"}

\* Python's None for an exception slot, and the errors the model raises.
NoError == "None"
RepeatedExecution == "RuntimeError: already executed"
FifoTimeout == "RuntimeError: opening fifo timed out"

\* The Action implementations of core/: a LambdaAction whose function returns,
\* two whose function raises, a CommandAction and a CreateDirAction.
ActionKinds == {"lambda", "lambda_raise_a", "lambda_raise_b", "command", "createdir"}

\* Task.__init__: no actions, no dependencies, no finalizers, nothing executed,
\* dirty unknown; a reference to the project, not deserialized, no cached
\* path.
NewTask ==
  [actions |-> <<>>, dependencies |-> <<>>, finalizers |-> <<>>, executed |-> FALSE,
   did_work |-> FALSE, dirty |-> "None", exception |-> NoError,
   project |-> "project", is_deserialized |-> FALSE, cached_path |-> "None"]

\* The task the worker process holds: Task.__getstate__ drops the project,
\* marks the copy deserialized and caches the path; the weak references of
\* `_dependencies` and `_finalizers` come out of the serializer alive or dead.
Deserialized(t, path, refs) ==
  [t EXCEPT !.project = "None", !.is_deserialized = TRUE, !.cached_path = path,
            !.dependencies = IF refs THEN @ ELSE <<>>,
            !.finalizers = IF refs THEN @ ELSE <<>>]

\* BuildGraph.__init__: nothing seen, no edge, nothing selected.
NewBuildGraph == [seen |-> {}, edges |-> {}, selected |-> {}]

\* The tasks an iteration yielded, the error that ended it and the selection
\* it started from; NotCalled before the first tasks_in_order().
NotCalled == [yielded |-> <<>>, raised |-> "NotCalled", selected |-> {}]

\* The first run of the build program: no build before it.
FirstBuild == [rerun |-> FALSE, succeeded |-> FALSE, inputs |-> <<>>]

\* The Project objects of the model: the root project, and three projects
\* constructed with the root as parent, two of them under the same name.
ProjectObjs == {"root", "app", "app2", "lib"}
\* A name or a path is the sequence of the segments its colons separate:
\* "app" is <<"app">>, "app:build" is <<"app", "build">>, ":run" is
\* <<"", "run">>.
ProjectName(p) == IF p = "app2" THEN <<"app">> ELSE <<p>>
ProjectParent(p) == IF p = "root" THEN "None" ELSE "root"

\* Project.__init__ of each: no children, no tasks, no extensions (dicts, in
\* insertion order).
NewTree ==
  [children |-> [p \in ProjectObjs |-> <<>>],
   tasks |-> [p \in ProjectObjs |-> <<>>],
   extensions |-> [p \in ProjectObjs |-> <<>>]]

\* Two new TaskInputs objects, and no file at any of the paths.
NewHash ==
  [x |-> [files |-> <<>>, values |-> <<>>], y |-> [files |-> <<>>, values |-> <<>>],
   fs |-> [p \in {"f", "g"} |-> [exists |-> FALSE, data |-> <<>>]]]

\* stream_func_async after the FIFO was opened and the function submitted to
\* the pool: nothing written, nothing read, the result not ready, the parent
\* at the head of its loop.
NewStream ==
  [written |-> <<>>, fifo |-> <<>>, captured |-> <<>>, result |-> "None",
   parent |-> "loop"]

\* (mutant) a LambdaAction that forgets `task.did_work = True`.
LambdaActionNoDidWork(a, st) ==
  [did_work |-> st.did_work, assigned |-> st.assigned,
   raised |-> CASE a = "lambda_raise_a" -> "err_a"
                [] a = "lambda_raise_b" -> "err_b"
                [] OTHER -> NoError]

\* LambdaAction.execute: func(task), then task.did_work = True.  A function that
\* raises leaves did_work unassigned.
LambdaActionExecute(a, st) ==
  IF a = "lambda"
    THEN [did_work |-> TRUE, assigned |-> TRUE, raised |-> NoError]
    ELSE [did_work |-> st.did_work, assigned |-> st.assigned,
          raised |-> IF a = "lambda_raise_a" THEN "err_a" ELSE "err_b"]

\* CommandAction.execute: run the commands, then task.did_work = True.
CommandActionExecute(a, st) ==
  [did_work |-> TRUE, assigned |-> TRUE, raised |-> NoError]

\* CreateDirAction.execute: os.makedirs only; did_work is not touched.
CreateDirActionExecute(a, st) ==
  [did_work |-> st.did_work, assigned |-> st.assigned, raised |-> NoError]

\* Action.execute(task), dispatched on the action's class.
ActionExecute(a, st) ==
  CASE a = "command" -> CommandActionExecute(a, st)
    [] a = "createdir" -> CreateDirActionExecute(a, st)
    [] OTHER -> LambdaActionExecute(a, st)

\* (mutant) the loop goes on after an action raised and keeps the last error.
RECURSIVE RunActionsNoStop(_, _, _)
RunActionsNoStop(actions, i, st) ==
  IF i > Len(actions) THEN st
  ELSE LET r == ActionExecute(actions[i], st)
       IN RunActionsNoStop(actions, i + 1,
            [did_work |-> r.did_work, assigned |-> r.assigned,
             ran |-> Append(st.ran, actions[i]),
             raised |-> IF r.raised # NoError THEN r.raised ELSE st.raised])

\* The try block of Task.execute: `for action in self._actions:
\* action.execute(self)`, left at the first action that raises.  st carries
\* did_work, the history of actions entered and the error caught.
RECURSIVE RunActions(_, _, _)
RunActions(actions, i, st) ==
  IF i > Len(actions) THEN st
  ELSE LET r == ActionExecute(actions[i], st)
           st2 == [did_work |-> r.did_work, assigned |-> r.assigned,
                   ran |-> Append(st.ran, actions[i]), raised |-> r.raised]
       IN IF r.raised # NoError THEN st2 ELSE RunActions(actions, i + 1, st2)

\* Task.execute on task record t (the caller has checked `executed`):
\* `except BaseException as exc: self.exception = exc`,
\* `finally: self.executed = True`.
TaskExecuteBody(t) ==
  LET r == RunActions(t.actions, 1,
             [did_work |-> t.did_work, assigned |-> FALSE, ran |-> <<>>,
              raised |-> NoError])
  IN [task |-> [t EXCEPT !.did_work = r.did_work,
                         !.exception = IF r.raised # NoError THEN r.raised
                                       ELSE t.exception,
                         !.executed = TRUE],
      ran |-> r.ran, assigned |-> r.assigned]

\* (mutant) status looks at `executed` and `did_work` before `exception`.
TaskStatusExecutedFirst(t) ==
  IF t.executed THEN (IF t.did_work THEN "FINISHED"
                      ELSE IF t.exception # NoError THEN "ERROR" ELSE "SKIPPED")
  ELSE IF t.dirty = "None" THEN "UNKNOWN"
  ELSE IF t.dirty = "True" THEN "PENDING"
  ELSE "UPTODATE"

\* Task.status
TaskStatus(t) ==
  IF t.exception # NoError THEN "ERROR"
  ELSE IF t.executed THEN (IF t.did_work THEN "FINISHED" ELSE "SKIPPED")
  ELSE IF t.dirty = "None" THEN "UNKNOWN"
  ELSE IF t.dirty = "True" THEN "PENDING"
  ELSE "UPTODATE"

-----------------------------------------------------------------------------
(* Operations on tasks *)

\* Task.performs(action)
Performs(id, a) ==
  /\ Len(tasks[id].actions) < MaxActions
  /\ tasks' = [tasks EXCEPT ![id].actions = Append(@, a)]
  /\ outcome' = [op |-> "performs", task |-> id, raised |-> NoError]
  /\ UNCHANGED <<ran, assigned, propVars, buildVars>>

\* Task.before_execute: dirty is True when the task has no inputs, else the
\* state tracker's answer.
BeforeExecute(id, inputs_empty, changed) ==
  /\ tasks' = [tasks EXCEPT ![id].dirty =
                 IF inputs_empty \/ changed THEN "True" ELSE "False"]
  /\ outcome' = [op |-> "before_execute", task |-> id, raised |-> NoError]
  /\ UNCHANGED <<ran, assigned, propVars, buildVars>>

\* (mutant) execute without the `if self.executed: raise` guard.
ExecuteUnguarded(id) ==
  LET r == TaskExecuteBody(tasks[id])
  IN /\ tasks' = [tasks EXCEPT ![id] = r.task]
     /\ ran' = [ran EXCEPT ![id] = @ \o r.ran]
     /\ assigned' = [assigned EXCEPT ![id] = @ \/ r.assigned]
     /\ outcome' = [op |-> "execute", task |-> id, raised |-> NoError]
     /\ UNCHANGED <<propVars, buildVars>>

\* Task.execute
Execute(id) ==
  IF tasks[id].executed
    THEN /\ outcome' = [op |-> "execute", task |-> id, raised |-> RepeatedExecution]
         /\ UNCHANGED <<tasks, ran, assigned, propVars, buildVars>>
    ELSE LET r == TaskExecuteBody(tasks[id])
         IN /\ tasks' = [tasks EXCEPT ![id] = r.task]
            /\ ran' = [ran EXCEPT ![id] = @ \o r.ran]
            /\ assigned' = [assigned EXCEPT ![id] = @ \/ r.assigned]
            /\ outcome' = [op |-> "execute", task |-> id, raised |-> NoError]
            /\ UNCHANGED <<propVars, buildVars>>

\* Task.reraise_error
ReraiseError(id) ==
  /\ outcome' = [op |-> "reraise_error", task |-> id, raised |-> tasks[id].exception]
  /\ UNCHANGED <<tasks, ran, assigned, propVars, buildVars>>

\* DefaultExecutor._execute, run in the worker on a copy of the task:
\* task.execute(); task.reraise_error(); return task.
WorkerExecute(t) ==
  IF t.executed
    THEN [task |-> t, ran |-> <<>>, assigned |-> FALSE, raised |-> RepeatedExecution]
    ELSE LET r == TaskExecuteBody(t)
         IN [task |-> r.task, ran |-> r.ran, assigned |-> r.assigned,
             raised |-> r.task.exception]

\* `buffer.getvalue().decode()` at the end of _run_single_task: the bytes the
\* worker wrote are decoded as UTF-8, which raises when they are not UTF-8.
UnicodeDecodeError == "UnicodeDecodeError"
Decode(decodes) == IF decodes THEN NoError ELSE UnicodeDecodeError

\* (mutant) a reconciliation that takes over every attribute of the returned
\* task, the underscore ones too.
RunSingleTaskWorkerCopyAll(t, path, fifo_ok, refs, decodes) ==
  IF ~fifo_ok
    THEN [task |-> [t EXCEPT !.executed = TRUE, !.exception = FifoTimeout],
          ran |-> <<>>, assigned |-> FALSE, raised |-> NoError]
    ELSE LET w == WorkerExecute(Deserialized(t, path, refs))
         IN IF w.raised # NoError
              THEN [task |-> [t EXCEPT !.executed = TRUE, !.exception = w.raised],
                    ran |-> w.ran, assigned |-> FALSE, raised |-> Decode(decodes)]
              ELSE [task |-> w.task, ran |-> w.ran, assigned |-> w.assigned,
                    raised |-> Decode(decodes)]

\* DefaultExecutor._run_single_task in worker mode, on the task t with the
\* given path.  fifo_ok = FALSE is stream_func_async failing before the worker
\* ran the task.  When the call raised, `task.executed = True;
\* task.exception = exc`; otherwise every public attribute of the returned task
\* that differs is copied onto the task.
RunSingleTaskWorker(t, path, fifo_ok, refs, decodes) ==
  IF ~fifo_ok
    THEN [task |-> [t EXCEPT !.executed = TRUE, !.exception = FifoTimeout],
          ran |-> <<>>, assigned |-> FALSE, raised |-> NoError]
    ELSE LET w == WorkerExecute(Deserialized(t, path, refs))
         IN IF w.raised # NoError
              THEN [task |-> [t EXCEPT !.executed = TRUE, !.exception = w.raised],
                    ran |-> w.ran, assigned |-> FALSE, raised |-> Decode(decodes)]
              ELSE [task |-> [t EXCEPT !.dirty = w.task.dirty,
                                       !.executed = w.task.executed,
                                       !.did_work = w.task.did_work,
                                       !.exception = w.task.exception],
                    ran |-> w.ran, assigned |-> w.assigned,
                    raised |-> Decode(decodes)]

\* DefaultExecutor._run_single_task in sequential mode: task.execute().
RunSingleTaskSequential(t) ==
  LET r == TaskExecuteBody(t)
  IN [task |-> r.task, ran |-> r.ran, assigned |-> r.assigned, raised |-> NoError]

\* The failure of an `assert` statement.
AssertionError == "AssertionError"

\* What the ExecListener is told: task_execute_begin(task) and
\* task_execute_end(task, output), with the exception the task holds then.
BeginEvent(id) == [ev |-> "begin", task |-> id, exception |-> NoError]
EndEvent(id, t) == [ev |-> "end", task |-> id, exception |-> t.exception]

\* How a call of run() ended; the mode of the executor and whether
\* stream_func_async got to run the worker go into the record.
RunOutcome(id, sequential, fifo_ok, raised) ==
  [op |-> "run", task |-> id, raised |-> raised, sequential |-> sequential,
   fifo_ok |-> sequential \/ fifo_ok]

\* DefaultExecutor.run(task): nothing for a task already executed; an
\* AssertionError when a task of task.dependencies is not executed; else
\* _run_single_task between the two listener notifications.  An error that
\* _run_single_task raises leaves run() before task_execute_end.
Run(id, sequential, fifo_ok) ==
  IF tasks[id].executed
    THEN /\ outcome' = RunOutcome(id, sequential, fifo_ok, NoError)
         /\ UNCHANGED <<tasks, ran, assigned, propVars, buildVars>>
  ELSE IF \E i \in 1..Len(tasks[id].dependencies) :
            ~tasks[tasks[id].dependencies[i]].executed
    THEN /\ outcome' = RunOutcome(id, sequential, fifo_ok, AssertionError)
         /\ UNCHANGED <<tasks, ran, assigned, propVars, buildVars>>
    ELSE \E refs, decodes \in BOOLEAN :
         LET r == IF sequential THEN RunSingleTaskSequential(tasks[id])
                  ELSE RunSingleTaskWorker(tasks[id], id, fifo_ok, refs, decodes)
         IN /\ tasks' = [tasks EXCEPT ![id] = r.task]
            /\ ran' = [ran EXCEPT ![id] = @ \o r.ran]
            /\ assigned' = [assigned EXCEPT ![id] = @ \/ r.assigned]
            /\ events' = events \o
                 IF r.raised = NoError
                   THEN <<BeginEvent(id), EndEvent(id, r.task)>>
                   ELSE <<BeginEvent(id)>>
            /\ outcome' = RunOutcome(id, sequential, fifo_ok, r.raised)
            /\ UNCHANGED <<propVars, graph, order, store, build, moreVars>>

Init ==
  /\ tasks = [id \in TaskIds |-> NewTask]
  /\ ran = [id \in TaskIds |-> <<>>]
  /\ assigned = [id \in TaskIds |-> FALSE]
  /\ outcome = [op |-> "init", task |-> "t1", raised |-> NoError]
  /\ props = <<>>
  /\ hist = <<>>
  /\ graph = NewBuildGraph
  /\ order = NotCalled
  /\ events = <<>>
  /\ store = <<>>
  /\ build = FirstBuild
  /\ tree = NewTree
  /\ stream = NewStream
  /\ hash = NewHash

Next ==
  \/ \E id \in TaskIds, a \in ActionKinds : Performs(id, a)
  \/ \E id \in TaskIds, e \in BOOLEAN, c \in BOOLEAN : BeforeExecute(id, e, c)
  \/ \E id \in TaskIds : Execute(id)
  \/ \E id \in TaskIds : ReraiseError(id)
  \/ \E id \in TaskIds, s \in BOOLEAN, f \in BOOLEAN : Run(id, s, f)

Spec == Init /\ [][Next]_vars

-----------------------------------------------------------------------------
(* Claims about the Task life cycle, checked under Spec *)

Raises(a) == a \in {"lambda_raise_a", "lambda_raise_b"}
ErrorOf(a) == IF a = "lambda_raise_a" THEN "err_a" ELSE "err_b"

\* The position of the first action of the list that raises, 0 when none does.
FirstRaising(actions) ==
  IF \E i \in 1..Len(actions) : Raises(actions[i])
    THEN CHOOSE i \in 1..Len(actions) :
           /\ Raises(actions[i])
           /\ \A j \in 1..(i - 1) : ~Raises(actions[j])
    ELSE 0

\* C1: a call of Task.execute() on a task not yet executed enters the actions
\* in insertion order up to and including the first one that raises, stores
\* that action's error in task.exception (none when no action raises), leaves
\* executed true and returns normally; execute() never raises an action's
\* error, and reraise_error() raises exactly task.exception.
C1_ExecuteRunsInOrderAndCatches ==
  LET t == tasks[outcome.task]
      k == FirstRaising(t.actions)
  IN /\ outcome.op = "execute" => outcome.raised \in {NoError, RepeatedExecution}
     /\ (outcome.op = "execute" /\ outcome.raised = NoError) =>
          /\ t.executed
          /\ ran[outcome.task] =
               IF k = 0 THEN t.actions ELSE SubSeq(t.actions, 1, k)
          /\ t.exception = IF k = 0 THEN NoError ELSE ErrorOf(t.actions[k])
     /\ outcome.op = "reraise_error" => outcome.raised = t.exception

\* An execute() that ran a did_work action, caught the error of the second
\* action and never entered the third.
C1_Witness ==
  /\ outcome.op = "execute" /\ outcome.raised = NoError
  /\ Len(tasks["t1"].actions) = 3 /\ Len(ran["t1"]) = 2
  /\ tasks["t1"].did_work /\ tasks["t1"].exception = "err_a"
  /\ Raises(tasks["t1"].actions[3])

\* C2: a step that calls execute() on a task whose executed flag is already
\* true ends with the repeated-execution error, enters no action and leaves
\* the task (executed, did_work, exception and all) as it was.
C2_RepeatedExecuteFails ==
  [][(outcome'.op = "execute" /\ tasks[outcome'.task].executed) =>
       /\ outcome'.raised = RepeatedExecution
       /\ ran' = ran
       /\ assigned' = assigned
       /\ tasks' = tasks]_vars

\* A second execute() of a task whose first execution ran actions.
C2_Witness ==
  /\ outcome.op = "execute" /\ outcome.raised = RepeatedExecution
  /\ Len(ran[outcome.task]) > 0

\* The rows of the status table of the specification that apply to a task.
StatusTableRows(t) ==
  {s \in {"UNKNOWN", "PENDING", "UPTODATE", "SKIPPED", "FINISHED", "ERROR"} :
     CASE s = "UNKNOWN" -> ~t.executed /\ t.dirty = "None"
       [] s = "PENDING" -> ~t.executed /\ t.dirty = "True"
       [] s = "UPTODATE" -> ~t.executed /\ t.dirty = "False"
       [] s = "SKIPPED" -> t.executed /\ ~t.did_work /\ t.exception = NoError
       [] s = "FINISHED" -> t.executed /\ t.did_work /\ t.exception = NoError
       [] s = "ERROR" -> t.executed /\ t.exception # NoError}

\* C3: in every reachable state exactly one row of the status table applies
\* to each task, and Task.status is that row's state.
C3_StatusIsTheTableRow ==
  \A id \in DOMAIN tasks : StatusTableRows(tasks[id]) = {TaskStatus(tasks[id])}

\* A task that did work and then failed: ERROR although did_work is true.
C3_Witness ==
  \E id \in DOMAIN tasks :
    /\ tasks[id].executed /\ tasks[id].did_work
    /\ tasks[id].exception # NoError
    /\ TaskStatus(tasks[id]) = "ERROR"

\* C4 as claimed: every executed task has an exception or had did_work
\* assigned by one of its actions.
C4_AsClaimed ==
  \A id \in DOMAIN tasks :
    tasks[id].executed => (tasks[id].exception # NoError \/ assigned[id])

\* C4 as amended: every executed task has an exception, or had did_work
\* assigned by one of its actions, or entered no action other than
\* CreateDirAction (possibly none) and then has did_work false.
C4_ExecutedWithoutWorkOnlyCreateDir ==
  \A id \in DOMAIN tasks :
    tasks[id].executed =>
      \/ tasks[id].exception # NoError
      \/ assigned[id]
      \/ /\ ~tasks[id].did_work
         /\ \A i \in 1..Len(ran[id]) : ran[id][i] = "createdir"

\* An executed task whose only action created a directory: SKIPPED.
C4_Witness ==
  \E id \in DOMAIN tasks :
    /\ tasks[id].executed /\ tasks[id].exception = NoError
    /\ ~assigned[id] /\ ran[id] = <<"createdir">>
    /\ TaskStatus(tasks[id]) = "SKIPPED"

-----------------------------------------------------------------------------
(* Providers (model/property.py) *)

\* Python's None as a property value; the values proper are 1..MaxVal.
NoValue == 0
Values == 1..MaxVal
Wrap(x) == ((x - 1) % MaxVal) + 1

\* The immutable providers, as terms.  Ref(p) is the Property object p itself
\* used as a provider; NoProvider is None in the `_default` slot.
Box(v) == <<"box", v>>
Ref(p) == <<"prop", p>>
Mapped(f, sub) == <<"map", f, sub>>
FlatMapped(f, sub) == <<"flatmap", f, sub>>
Coalescing(a, b) == <<"coalesce", a, b>>
NoProvider == <<"none">>
Kind(e) == e[1]

\* The functions given to map(): <<"succ">> is `lambda v: v + 1`, <<"add", c>>
\* is `lambda v: c.get() + v` with the Property c in its closure.
\* The functions given to flatmap(): <<"box">> is `lambda v: Property(v)`,
\* <<"pick", c>> is `lambda v: c` with the Property c in its closure.
\* Captured(f): the Property objects in f.__closure__, in cell order.
Captured(f) == IF Len(f) = 2 THEN <<f[2]>> ELSE <<>>

\* Default functions: NoFunc is None, "fn_val" returns a value (a path derived
\* from the owner), "fn_none" returns None.
NoFunc == "None"
DefaultFuncs == {"fn_val", "fn_none"}
DefaultFuncResult(f) == IF f = "fn_val" THEN 1 ELSE NoValue

\* Property.__init__(default_value): Box(None) as value, the default installed
\* by default(); `read` is a mark set by get() within one operation.
NewProperty(default, default_func) ==
  [value |-> Box(NoValue), default |-> default, default_func |-> default_func,
   finalized |-> FALSE, finalize_on_read |-> FALSE, final_value |-> NoValue,
   read |-> FALSE]

\* How a call that may raise NoValuePresent ends, with the property store it
\* leaves (get() caches the value of a property marked finalize_on_read).
Ok(v, ps) == [ok |-> TRUE, v |-> v, ps |-> ps]
Raise(ps) == [ok |-> FALSE, v |-> NoValue, ps |-> ps]

\* A method call on a provider object, which Python dispatches by the class of
\* the object: m is "get", "bool" or, on a Property, "_get_value".
RECURSIVE Call(_, _, _)

\* Provider.or_none: get(), None when it raises NoValuePresent.
OrNone(e, ps) ==
  LET r == Call("get", e, ps)
  IN [v |-> IF r.ok THEN r.v ELSE NoValue, ps |-> r.ps]

\* Provider.or_else: get(), the given value when it raises NoValuePresent.
OrElse(e, d, ps) ==
  LET r == Call("get", e, ps)
  IN [v |-> IF r.ok THEN r.v ELSE d, ps |-> r.ps]

\* self._func(value) of a MappedProvider.
ApplyMap(f, v, ps) ==
  IF f[1] = "succ" THEN Ok(Wrap(v + 1), ps)
  ELSE LET c == Call("get", Ref(f[2]), ps)
       IN IF c.ok THEN Ok(Wrap(c.v + v), c.ps) ELSE Raise(c.ps)

\* self._func(value) of a FlatMappedProvider: the provider returned.
ApplyFlatMap(f, v) ==
  IF f[1] = "box" THEN Box(v) ELSE Ref(f[2])

\* Box.get
BoxGet(e, ps) == IF e[2] = NoValue THEN Raise(ps) ELSE Ok(e[2], ps)

\* MappedProvider.get
MappedGet(e, ps) ==
  LET s == Call("get", e[3], ps)
  IN IF s.ok THEN ApplyMap(e[2], s.v, s.ps) ELSE Raise(s.ps)

\* FlatMappedProvider.get
FlatMappedGet(e, ps) ==
  LET s == Call("get", e[3], ps)
  IN IF s.ok THEN Call("get", ApplyFlatMap(e[2], s.v), s.ps) ELSE Raise(s.ps)

\* CoalescingProvider.get
CoalescingGet(e, ps) ==
  LET a == OrNone(e[2], ps)
  IN IF a.v # NoValue THEN Ok(a.v, a.ps)
     ELSE LET b == OrNone(e[3], a.ps)
          IN IF b.v # NoValue THEN Ok(b.v, b.ps) ELSE Raise(b.ps)

\* Box.__bool__
BoxBool(e, ps) == [b |-> e[2] # NoValue, ps |-> ps]

\* MappedProvider.__bool__
MappedBool(e, ps) == Call("bool", e[3], ps)

\* FlatMappedProvider.__bool__
FlatMappedBool(e, ps) ==
  LET s == OrNone(e[3], ps)
  IN IF s.v = NoValue THEN [b |-> FALSE, ps |-> s.ps]
     ELSE Call("bool", ApplyFlatMap(e[2], s.v), s.ps)

\* CoalescingProvider.__bool__
CoalescingBool(e, ps) ==
  LET a == Call("bool", e[2], ps)
  IN IF a.b THEN a ELSE Call("bool", e[3], a.ps)

\* Property.__bool__: bool(self._value or self._default or self._default_func);
\* `or` asks each operand's __bool__ and bool() asks the chosen one again.
PropertyBool(p, ps) ==
  LET v == Call("bool", ps[p].value, ps)
  IN IF v.b THEN Call("bool", ps[p].value, v.ps)
     ELSE LET d == Call("bool", ps[p].default, v.ps)
          IN IF d.b THEN Call("bool", ps[p].default, d.ps)
             ELSE [b |-> ps[p].default_func # NoFunc, ps |-> d.ps]

\* Property._get_value
PropertyGetValue(p, ps) ==
  LET r == OrNone(ps[p].value, ps)
  IN IF r.v # NoValue THEN Ok(r.v, r.ps)
     ELSE IF ps[p].default_func # NoFunc
       THEN LET fv == DefaultFuncResult(ps[p].default_func)
            IN IF fv # NoValue THEN Ok(fv, r.ps) ELSE Raise(r.ps)
     ELSE LET d == Call("bool", ps[p].default, r.ps)
          IN IF d.b
               THEN LET o == OrNone(ps[p].default, d.ps)
                    IN IF o.v # NoValue THEN Ok(o.v, o.ps) ELSE Raise(o.ps)
               ELSE Raise(d.ps)

\* Property.get; the property is marked as read.
PropertyGet(p, ps) ==
  LET ps1 == [ps EXCEPT ![p].read = TRUE]
  IN IF ps[p].finalized
       THEN IF ps[p].finalize_on_read
              THEN LET r == Call("_get_value", Ref(p), ps1)
                       fv == IF r.ok THEN r.v ELSE NoValue
                       ps2 == [r.ps EXCEPT ![p].final_value = fv,
                                           ![p].finalize_on_read = FALSE]
                   IN IF fv = NoValue THEN Raise(ps2) ELSE Ok(fv, ps2)
              ELSE IF ps[p].final_value = NoValue THEN Raise(ps1)
                   ELSE Ok(ps[p].final_value, ps1)
       ELSE Call("_get_value", Ref(p), ps1)

Call(m, e, ps) ==
  IF m = "_get_value" THEN PropertyGetValue(e[2], ps)
  ELSE IF m = "get"
    THEN CASE Kind(e) = "box" -> BoxGet(e, ps)
           [] Kind(e) = "map" -> MappedGet(e, ps)
           [] Kind(e) = "flatmap" -> FlatMappedGet(e, ps)
           [] Kind(e) = "coalesce" -> CoalescingGet(e, ps)
           [] Kind(e) = "prop" -> PropertyGet(e[2], ps)
    ELSE CASE Kind(e) = "box" -> BoxBool(e, ps)
           [] Kind(e) = "map" -> MappedBool(e, ps)
           [] Kind(e) = "flatmap" -> FlatMappedBool(e, ps)
           [] Kind(e) = "coalesce" -> CoalescingBool(e, ps)
           [] Kind(e) = "prop" -> PropertyBool(e[2], ps)
           [] Kind(e) = "none" -> [b |-> FALSE, ps |-> ps]

\* p.get() and bool(p) of any provider p.
ProviderGet(e, ps) == Call("get", e, ps)
ProviderBool(e, ps) == Call("bool", e, ps)

\* (mutant) set() without the `if self._finalized: raise` guard.
PropertySetUnguarded(p, x, ps) ==
  [raised |-> FALSE,
   ps |-> [ps EXCEPT ![p].value = IF x[1] = "provider" THEN x[2] ELSE Box(x[2])]]

\* Property.set(value): x is <<"provider", e>> or <<"raw", v>>, which set()
\* wraps in a Box.  RuntimeError when the property is finalized.
PropertySet(p, x, ps) ==
  IF ps[p].finalized THEN [raised |-> TRUE, ps |-> ps]
  ELSE [raised |-> FALSE,
        ps |-> [ps EXCEPT ![p].value =
                  IF x[1] = "provider" THEN x[2] ELSE Box(x[2])]]

\* Property.default(value): x is <<"provider", e>>, <<"func", f>> or
\* <<"raw", v>>.
PropertyDefault(p, x, ps) ==
  CASE x[1] = "provider" ->
         [ps EXCEPT ![p].default = x[2], ![p].default_func = NoFunc]
    [] x[1] = "func" ->
         [ps EXCEPT ![p].default = NoProvider, ![p].default_func = x[2]]
    [] OTHER ->
         [ps EXCEPT ![p].default = Box(x[2]), ![p].default_func = NoFunc]

\* (mutant) a finalize that sets the flags before it evaluates.
PropertyFinalizeFlagsFirst(p, ps) ==
  LET r == Call("_get_value", Ref(p),
                [ps EXCEPT ![p].finalized = TRUE, ![p].finalize_on_read = FALSE])
  IN IF r.ok THEN Ok(r.v, [r.ps EXCEPT ![p].final_value = r.v]) ELSE Raise(r.ps)

\* Property.finalize: evaluates and caches unless a value is cached already;
\* returns the cached value.  NoValuePresent leaves the flags as they were.
PropertyFinalize(p, ps) ==
  IF ~ps[p].finalized \/ ps[p].finalize_on_read
    THEN LET r == Call("_get_value", Ref(p), ps)
         IN IF r.ok
              THEN Ok(r.v, [r.ps EXCEPT ![p].final_value = r.v,
                                        ![p].finalize_on_read = FALSE,
                                        ![p].finalized = TRUE])
              ELSE Raise(r.ps)
    ELSE Ok(ps[p].final_value, ps)

\* (mutant) finalize_on_read that takes the snapshot at once, as finalize does.
PropertyFinalizeOnReadEager(p, ps) ==
  IF ps[p].finalized THEN ps
  ELSE LET r == Call("_get_value", Ref(p), ps)
       IN [r.ps EXCEPT ![p].finalized = TRUE,
                       ![p].final_value = IF r.ok THEN r.v ELSE NoValue]

\* (mutant) a finalize_on_read that arms the next read on a finalized property
\* too.
PropertyFinalizeOnReadAgain(p, ps) ==
  [ps EXCEPT ![p].finalized = TRUE, ![p].finalize_on_read = TRUE]

\* Property.finalize_on_read
PropertyFinalizeOnRead(p, ps) ==
  IF ps[p].finalized THEN ps
  ELSE [ps EXCEPT ![p].finalized = TRUE, ![p].finalize_on_read = TRUE]

\* The properties get() was called on within the operation that left ps, and
\* ps with the marks removed.
ReadIn(ps) == {p \in DOMAIN ps : ps[p].read}
StripReads(ps) == [p \in DOMAIN ps |-> [ps[p] EXCEPT !.read = FALSE]]

-----------------------------------------------------------------------------
(* Operations on properties *)

\* What the history keeps per property: `snap`, the value the first successful
\* finalize() returned; `await`, whether a finalize_on_read() call still waits
\* for its first get() ("fresh": the call marked an unfinalized property and
\* no finalize() came since; "stale": the property held a cached value when it
\* was called, or finalize() cached one since); `first`, what that first get()
\* found.  A set is empty until the event happens.
NewHist == [snap |-> {}, await |-> "none", first |-> {}]

\* The history after an operation that left the store ps: a get() of a
\* property that awaited its first read is that first read.
HistRead(h, ps) ==
  [p \in DOMAIN h |->
     IF p \in ReadIn(ps) /\ h[p].await # "none"
       THEN [h[p] EXCEPT !.await = "none", !.first = {ps[p].final_value}]
       ELSE h[p]]

\* Property.set
Set(p, x) ==
  LET r == PropertySet(p, x, props)
  IN /\ props' = r.ps
     /\ UNCHANGED <<hist, taskVars, outcome, buildVars>>

\* Property.default
Default(p, x) ==
  /\ props' = PropertyDefault(p, x, props)
  /\ UNCHANGED <<hist, taskVars, outcome, buildVars>>

\* Property.get (also behind or_else and or_none)
Get(p) ==
  LET r == Call("get", Ref(p), props)
  IN /\ props' = StripReads(r.ps)
     /\ hist' = HistRead(hist, r.ps)
     /\ UNCHANGED <<taskVars, outcome, buildVars>>

\* Property.__bool__
Bool(p) ==
  LET r == Call("bool", Ref(p), props)
  IN /\ props' = StripReads(r.ps)
     /\ hist' = HistRead(hist, r.ps)
     /\ UNCHANGED <<taskVars, outcome, buildVars>>

\* Property.finalize
Finalize(p) ==
  LET r == PropertyFinalize(p, props)
      h == HistRead(hist, r.ps)
  IN /\ props' = StripReads(r.ps)
     /\ hist' = IF r.ok
                  THEN [h EXCEPT ![p].snap = IF @ = {} THEN {r.v} ELSE @,
                                 ![p].await = IF @ = "none" THEN @ ELSE "stale"]
                  ELSE h
     /\ UNCHANGED <<taskVars, outcome, buildVars>>

\* Property.finalize_on_read
FinalizeOnRead(p) ==
  /\ props' = PropertyFinalizeOnRead(p, props)
  /\ hist' = [hist EXCEPT ![p].await = IF props[p].finalized /\ @ # "fresh"
                                         THEN "stale" ELSE "fresh",
                          ![p].first = {}]
  /\ UNCHANGED <<taskVars, outcome, buildVars>>

\* The Property() objects of the property specifications, wired upwards only
\* (p1 <- p2 <- p3) so that no provider reaches itself.
PropIds == {"p1", "p2", "p3"}

RawValues == {<<"raw", v>> : v \in Values \cup {NoValue}}

PropInit ==
  /\ props = [p \in PropIds |-> NewProperty(Box(NoValue), NoFunc)]
  /\ hist = [p \in PropIds |-> NewHist]
  /\ tasks = <<>>
  /\ ran = <<>>
  /\ assigned = <<>>
  /\ outcome = [op |-> "init", task |-> "t1", raised |-> NoError]
  /\ graph = NewBuildGraph
  /\ order = NotCalled
  /\ events = <<>>
  /\ store = <<>>
  /\ build = FirstBuild
  /\ tree = NewTree
  /\ stream = NewStream
  /\ hash = NewHash

\* Finalization: what set() is given, per property.
FinSetInputs(p) ==
  CASE p = "p1" -> RawValues
    [] p = "p2" -> {<<"raw", 1>>,
                    <<"provider", Ref("p1")>>,
                    <<"provider", Mapped(<<"succ">>, Ref("p1"))>>}
    [] p = "p3" -> {<<"provider", Ref("p2")>>,
                    <<"provider", Coalescing(Ref("p2"), Ref("p1"))>>}

\* What default() is given: it is not refused on a finalized property.
FinDefaultInputs(p) ==
  IF p = "p2" THEN {<<"raw", NoValue>>, <<"raw", MaxVal>>, <<"func", "fn_val">>}
  ELSE {}

FinNext ==
  \/ \E p \in PropIds : \E x \in FinSetInputs(p) : Set(p, x)
  \/ \E p \in PropIds : \E x \in FinDefaultInputs(p) : Default(p, x)
  \/ \E p \in PropIds : Get(p)
  \/ \E p \in PropIds : Finalize(p)
  \/ \E p \in PropIds : FinalizeOnRead(p)

FinSpec == PropInit /\ [][FinNext]_vars

\* Evaluation: what set() and default() are given, per property.
EvalSetInputs(p) ==
  CASE p = "p1" -> RawValues
    [] p = "p2" -> {<<"raw", NoValue>>,
                    <<"provider", Ref("p1")>>,
                    <<"provider", Mapped(<<"succ">>, Ref("p1"))>>}
    [] p = "p3" -> {<<"raw", NoValue>>,
                    <<"provider", Mapped(<<"add", "p1">>, Ref("p2"))>>,
                    <<"provider", Coalescing(Ref("p2"), Ref("p1"))>>,
                    <<"provider", FlatMapped(<<"pick", "p1">>, Ref("p2"))>>,
                    <<"provider", FlatMapped(<<"box">>, Ref("p2"))>>}

EvalDefaultInputs(p) ==
  CASE p = "p1" -> {}
    [] p = "p2" -> {<<"raw", NoValue>>, <<"raw", MaxVal>>,
                    <<"func", "fn_val">>, <<"func", "fn_none">>}
    [] p = "p3" -> {<<"raw", NoValue>>, <<"provider", Ref("p2")>>,
                    <<"func", "fn_val">>}

EvalNext ==
  \/ \E p \in PropIds : \E x \in EvalSetInputs(p) : Set(p, x)
  \/ \E p \in PropIds : \E x \in EvalDefaultInputs(p) : Default(p, x)
  \/ \E p \in PropIds : Get(p)
  \/ \E p \in PropIds : Bool(p)
  \/ Finalize("p2")

EvalSpec == PropInit /\ [][EvalNext]_vars

RECURSIVE Adds(_)
\* The number of add() and extend() mappings on top of a provider.
Adds(e) == IF Kind(e) = "map" /\ e[2] = <<"succ">> THEN 1 + Adds(e[3]) ELSE 0

\* ListProperty.add and ListProperty.extend: `if not self._value:
\* self._value = Box([])`, then `self._value = self._value.map(_flat)`, whether
\* the property is finalized or not.  The value 1 stands for the empty list
\* and the mapping "succ" for _flat, which returns another list.
PropertyAdd(p, ps) ==
  LET b == Call("bool", ps[p].value, ps)
  IN [b.ps EXCEPT ![p].value = Mapped(<<"succ">>,
                                      IF b.b THEN ps[p].value ELSE Box(1))]

\* A call of add() or extend() on the property p.
Add(p) ==
  /\ Adds(props[p].value) < MaxAdds
  /\ props' = StripReads(PropertyAdd(p, props))
  /\ hist' = HistRead(hist, PropertyAdd(p, props))
  /\ UNCHANGED <<taskVars, outcome, buildVars>>

NoValuePresent == "NoValuePresent"

\* A call of finalize() whose end is recorded: the property, the error raised
\* and a mark n that tells one call from the next.
CallFinalize(p) ==
  LET r == PropertyFinalize(p, props)
      h == HistRead(hist, r.ps)
  IN /\ props' = StripReads(r.ps)
     /\ hist' = IF r.ok
                  THEN [h EXCEPT ![p].snap = IF @ = {} THEN {r.v} ELSE @,
                                 ![p].await = IF @ = "none" THEN @ ELSE "stale"]
                  ELSE h
     /\ outcome' = [op |-> "finalize", task |-> p,
                    raised |-> IF r.ok THEN NoError ELSE NoValuePresent,
                    n |-> 1 - outcome.n]
     /\ UNCHANGED <<taskVars, buildVars>>

SnapInit ==
  /\ props = [p \in PropIds |-> NewProperty(Box(NoValue), NoFunc)]
  /\ hist = [p \in PropIds |-> NewHist]
  /\ tasks = <<>>
  /\ ran = <<>>
  /\ assigned = <<>>
  /\ outcome = [op |-> "init", task |-> "p1", raised |-> NoError, n |-> 0]
  /\ graph = NewBuildGraph
  /\ order = NotCalled
  /\ events = <<>>
  /\ store = <<>>
  /\ build = FirstBuild
  /\ tree = NewTree
  /\ stream = NewStream
  /\ hash = NewHash

\* The calls on p1 and on p2, whose value may be p1 or a mapping of it; p2
\* is the ListProperty.
SnapNext ==
  \/ \E x \in RawValues : Set("p1", x)
  \/ \E x \in FinSetInputs("p2") : Set("p2", x)
  \/ \E x \in FinDefaultInputs("p2") : Default("p2", x)
  \/ \E p \in {"p1", "p2"} : Get(p)
  \/ \E p \in {"p1", "p2"} : CallFinalize(p)
  \/ \E p \in {"p1", "p2"} : FinalizeOnRead(p)
  \/ Add("p2")

SnapSpec == SnapInit /\ [][SnapNext]_vars

-----------------------------------------------------------------------------
(* Dependencies through properties (model/task.py, model/property.py) *)

\* The longest list of depends_on() tasks followed.
MaxDeps == 2

\* Two task classes and a task of each: ProducerTask declares `out`
\* (Property(None, Task.Output)), `fn` (Property(<function>, Task.Output)) and
\* `plain` (annotation only); ConsumerTask declares `inp`
\* (Property(None, Task.InputFile)).  Task a is a ProducerTask, task b a
\* ConsumerTask.
DepTaskIds == {"a", "b"}
Templates == {"Producer.out", "Producer.fn", "Producer.plain", "Consumer.inp"}
Declared(t) ==
  CASE t = "a" -> {"a.out", "a.fn", "a.plain"}
    [] t = "b" -> {"b.inp"}
    [] OTHER -> {}
TemplateOf(p) ==
  CASE p = "a.out" -> "Producer.out"
    [] p = "a.fn" -> "Producer.fn"
    [] p = "a.plain" -> "Producer.plain"
    [] p = "b.inp" -> "Consumer.inp"
    [] OTHER -> p

\* Property.markers: those of the class-level property, which instantiate()
\* hands on.
PropMarkers(p) ==
  CASE TemplateOf(p) \in {"Producer.out", "Producer.fn"} -> {"Output"}
    [] TemplateOf(p) = "Consumer.inp" -> {"InputFile"}
    [] OTHER -> {}

\* Property.origin: the task an instantiated property belongs to, None for a
\* class-level one.
PropOrigin(p) ==
  IF p \in Declared("a") THEN "a" ELSE IF p \in Declared("b") THEN "b" ELSE "None"

\* The class-level properties, as get_props_defaults() finds them.
TemplateProperty(c) ==
  IF c = "Producer.fn" THEN NewProperty(NoProvider, "fn_val")
  ELSE NewProperty(Box(NoValue), NoFunc)

\* Property.instantiate: the new property's default is the class-level
\* property's default function, or else the class-level property itself.
Instantiate(c) ==
  IF TemplateProperty(c).default_func # NoFunc
    THEN NewProperty(NoProvider, TemplateProperty(c).default_func)
    ELSE NewProperty(Ref(c), NoFunc)

\* How a visit ends: the list of the properties the visitor was handed, in the
\* order of the calls, or the AttributeError of `self._default.visit` on a None
\* default.  Visited(found) is a set of tasks returned.
AttributeError == "AttributeError"
Collected(found) == [ok |-> TRUE, found |-> found]
Visited(found) == [ok |-> TRUE, found |-> found]
VisitRaises == [ok |-> FALSE, found |-> {}]

RECURSIVE ProviderVisit(_, _)
RECURSIVE VisitEach(_, _)

\* Consecutive visit() calls; the first that raises ends them.
VisitEach(es, ps) ==
  IF es = <<>> THEN Collected(<<>>)
  ELSE LET h == ProviderVisit(Head(es), ps)
       IN IF ~h.ok THEN VisitRaises
          ELSE LET t == VisitEach(Tail(es), ps)
               IN IF t.ok THEN Collected(h.found \o t.found) ELSE VisitRaises

\* visit() of each provider class under the visitor of collect_properties,
\* which records every Property and always continues.
ProviderVisit(e, ps) ==
  CASE Kind(e) = "box" -> Collected(<<>>)
    [] Kind(e) = "prop" ->
         LET p == e[2]
             inner == IF ProviderBool(ps[p].value, ps).b
                        THEN ProviderVisit(ps[p].value, ps)
                        ELSE IF ps[p].default = NoProvider THEN VisitRaises
                        ELSE ProviderVisit(ps[p].default, ps)
         IN IF inner.ok THEN Collected(<<p>> \o inner.found) ELSE VisitRaises
    [] Kind(e) \in {"map", "flatmap"} ->
         VisitEach(<<e[3]>> \o [i \in 1..Len(Captured(e[2])) |-> Ref(Captured(e[2])[i])],
                   ps)
    [] Kind(e) = "coalesce" -> VisitEach(<<e[2], e[3]>>, ps)

\* collect_properties(provider): the list the visitor has appended to.
CollectProperties(e, ps) == ProviderVisit(e, ps)

\* Property.dependencies: collect_properties(self._value)
PropertyDependencies(p, ps) == CollectProperties(ps[p].value, ps)

\* The elements of a list.
Elems(s) == {s[i] : i \in 1..Len(s)}

\* The tasks in a list of them.
TaskSet(deps) == {deps[i] : i \in 1..Len(deps)}

\* (mutant) compute_all_dependencies without the Output marker test.
ComputeAllDependenciesAnyMarker(t, ts, ps) ==
  IF \E p \in Declared(t) : ~PropertyDependencies(p, ps).ok THEN VisitRaises
  ELSE Visited(TaskSet(ts[t].dependencies) \cup
         {PropOrigin(q) : q \in {c \in UNION {Elems(PropertyDependencies(p, ps).found) :
                                                p \in Declared(t)} :
                                   PropOrigin(c) # "None"}})

\* Task.compute_all_dependencies: the depends_on() tasks and the origin of each
\* Output property found among the dependencies of a declared property.
ComputeAllDependencies(t, ts, ps) ==
  IF \E p \in Declared(t) : ~PropertyDependencies(p, ps).ok THEN VisitRaises
  ELSE Visited(TaskSet(ts[t].dependencies) \cup
         {PropOrigin(q) : q \in {c \in UNION {Elems(PropertyDependencies(p, ps).found) :
                                                p \in Declared(t)} :
                                   /\ "Output" \in PropMarkers(c)
                                   /\ PropOrigin(c) # "None"}})

\* Task.depends_on(u)
DependsOn(t, u) ==
  /\ Len(tasks[t].dependencies) < MaxDeps
  /\ tasks' = [tasks EXCEPT ![t].dependencies = Append(@, u)]
  /\ outcome' = [op |-> "depends_on", task |-> t, raised |-> NoError]
  /\ UNCHANGED <<ran, assigned, propVars, buildVars>>

\* A call of Task.compute_all_dependencies
CallComputeAllDependencies(t) ==
  /\ outcome' = [op |-> "compute_all_dependencies", task |-> t,
                 raised |-> IF ComputeAllDependencies(t, tasks, props).ok
                              THEN NoError ELSE AttributeError]
  /\ UNCHANGED <<taskVars, propVars, buildVars>>

\* What set() and default() are given, per declared property.
DepSetInputs(p) ==
  CASE p = "a.out" -> RawValues
    [] p = "a.fn" -> {<<"raw", NoValue>>, <<"raw", 1>>}
    [] p = "a.plain" -> {<<"raw", NoValue>>, <<"provider", Ref("a.out")>>}
    [] p = "b.inp" ->
         {<<"raw", NoValue>>} \cup
         {<<"provider", e>> : e \in
            {Ref("a.out"), Ref("a.fn"), Ref("a.plain"),
             Mapped(<<"succ">>, Ref("a.out")),
             Mapped(<<"add", "a.fn">>, Ref("a.plain")),
             FlatMapped(<<"pick", "a.out">>, Ref("a.plain")),
             Coalescing(Ref("a.plain"), Ref("a.fn")),
             Coalescing(Ref("a.fn"), Ref("a.out"))}}

DepDefaultInputs(p) ==
  IF p = "a.out" THEN {<<"func", "fn_val">>, <<"raw", NoValue>>} ELSE {}

DepInit ==
  /\ props = [p \in Templates \cup UNION {Declared(t) : t \in DepTaskIds} |->
                IF p \in Templates THEN TemplateProperty(p)
                ELSE Instantiate(TemplateOf(p))]
  /\ hist = [p \in Templates \cup UNION {Declared(t) : t \in DepTaskIds} |-> NewHist]
  /\ tasks = [t \in DepTaskIds |-> NewTask]
  /\ ran = [t \in DepTaskIds |-> <<>>]
  /\ assigned = [t \in DepTaskIds |-> FALSE]
  /\ outcome = [op |-> "init", task |-> "a", raised |-> NoError]
  /\ graph = NewBuildGraph
  /\ order = NotCalled
  /\ events = <<>>
  /\ store = <<>>
  /\ build = FirstBuild
  /\ tree = NewTree
  /\ stream = NewStream
  /\ hash = NewHash

DepNext ==
  \/ \E t \in DepTaskIds : \E p \in Declared(t) : \E x \in DepSetInputs(p) : Set(p, x)
  \/ \E t \in DepTaskIds : \E p \in Declared(t) : \E x \in DepDefaultInputs(p) : Default(p, x)
  \/ \E t \in DepTaskIds : \E u \in DepTaskIds \ {t} : DependsOn(t, u)
  \/ \E t \in DepTaskIds : CallComputeAllDependencies(t)

DepSpec == DepInit /\ [][DepNext]_vars

-----------------------------------------------------------------------------
(* The build graph (model/build_graph.py) *)

\* Task.finalized_by(u)
FinalizedBy(t, u) ==
  /\ Len(tasks[t].finalizers) < MaxDeps
  /\ tasks' = [tasks EXCEPT ![t].finalizers = Append(@, u)]
  /\ outcome' = [op |-> "finalized_by", task |-> t, raised |-> NoError]
  /\ UNCHANGED <<ran, assigned, propVars, buildVars>>

RECURSIVE SetToSeq(_)
\* The elements of a set in the order a `for` loop meets them.
SetToSeq(S) ==
  IF S = {} THEN <<>>
  ELSE LET x == CHOOSE y \in S : TRUE IN <<x>> \o SetToSeq(S \ {x})

RECURSIVE AddTask(_, _, _, _)
RECURSIVE AddEach(_, _, _, _, _, _)

\* (mutant) the loops of add_task without their add_edge calls.
AddEachNoEdge(g, us, t, kind, ts, ps) ==
  IF us = <<>> THEN [ok |-> TRUE, g |-> g]
  ELSE LET r == AddTask(g, Head(us), ts, ps)
       IN IF ~r.ok THEN r ELSE AddEach(r.g, Tail(us), t, kind, ts, ps)

\* The two loops of add_task: add_task(u) and then the edge u -> t for a
\* dependency u, the edge t -> u for a finalizer u.
AddEach(g, us, t, kind, ts, ps) ==
  IF us = <<>> THEN [ok |-> TRUE, g |-> g]
  ELSE LET r == AddTask(g, Head(us), ts, ps)
       IN IF ~r.ok THEN r
          ELSE AddEach([r.g EXCEPT !.edges = @ \cup
                          {IF kind = "dependency" THEN <<Head(us), t>>
                                                  ELSE <<t, Head(us)>>}],
                       Tail(us), t, kind, ts, ps)

\* BuildGraph.add_task: the graph it leaves, and whether it returned; it
\* raises what compute_all_dependencies raises, the task already seen.
AddTask(g, t, ts, ps) ==
  IF t \in g.seen THEN [ok |-> TRUE, g |-> g]
  ELSE LET g1 == [g EXCEPT !.seen = @ \cup {t}]
           d == ComputeAllDependencies(t, ts, ps)
       IN IF ~d.ok THEN [ok |-> FALSE, g |-> g1]
          ELSE LET r == AddEach(g1, SetToSeq(d.found), t, "dependency", ts, ps)
               IN IF ~r.ok THEN r
                  ELSE AddEach(r.g, ts[t].finalizers, t, "finalizer", ts, ps)

RECURSIVE AddTasks(_, _, _, _)
\* BuildGraph.add_tasks
AddTasks(g, us, ts, ps) ==
  IF us = <<>> THEN [ok |-> TRUE, g |-> g]
  ELSE LET r == AddTask(g, Head(us), ts, ps)
       IN IF ~r.ok THEN r ELSE AddTasks(r.g, Tail(us), ts, ps)

\* The error of networkx.algorithms.dag.topological_sort on a cyclic graph.
NetworkXUnfeasible == "NetworkXUnfeasible"

RECURSIVE TopologicalSort(_, _, _)

\* (mutant) a topological_sort that yields every node before its sources.
TopologicalSortNoCycleError(nodes, edges, emitted) ==
  IF Elems(emitted) = nodes THEN {[yielded |-> emitted, raised |-> NoError]}
  ELSE UNION {TopologicalSort(nodes, edges, Append(emitted, n)) :
                n \in nodes \ Elems(emitted)}

\* networkx.algorithms.dag.topological_sort, iterated to its end, from the
\* nodes already emitted: it yields a node all of whose sources were yielded,
\* as long as there is one, and raises NetworkXUnfeasible if nodes are left
\* over.  Which of several such nodes comes first follows from the order in
\* which the nodes were inserted and from the version of the library, neither
\* of which the graph fixes: each of them may.
TopologicalSort(nodes, edges, emitted) ==
  LET ready == {n \in nodes \ Elems(emitted) :
                  \A ed \in edges : ed[2] = n => ed[1] \in Elems(emitted)}
  IN IF ready = {}
       THEN {[yielded |-> emitted,
              raised |-> IF Elems(emitted) = nodes THEN NoError
                                                   ELSE NetworkXUnfeasible]}
       ELSE UNION {TopologicalSort(nodes, edges, Append(emitted, n)) : n \in ready}

\* (mutant) a tasks_in_order that sorts the graph itself, not the sub-graph of
\* the selection.
TasksInOrderWholeGraph(g, ts, ps) ==
  TopologicalSort(g.seen, g.edges, <<>>)

\* BuildGraph.tasks_in_order, iterated to its end: the sub-graph of the selected
\* tasks, sorted.  An error of add_task is raised by the call itself.
TasksInOrder(g, ts, ps) ==
  LET sub == AddTasks(NewBuildGraph, SetToSeq(g.selected), ts, ps)
  IN IF ~sub.ok THEN {[yielded |-> <<>>, raised |-> AttributeError]}
     ELSE TopologicalSort(sub.g.seen, sub.g.edges, <<>>)

\* BuildGraph.add_project: add_tasks(project.iter_all_tasks())
AddProject ==
  LET r == AddTasks(graph, SetToSeq(DOMAIN tasks), tasks, props)
  IN /\ graph' = r.g
     /\ outcome' = [op |-> "add_project", task |-> "None",
                    raised |-> IF r.ok THEN NoError ELSE AttributeError]
     /\ UNCHANGED <<taskVars, propVars, order, events, store, build, moreVars>>

\* BuildGraph.select
Select(t) ==
  /\ graph' = [graph EXCEPT !.selected = @ \cup {t}]
  /\ outcome' = [op |-> "select", task |-> t, raised |-> NoError]
  /\ UNCHANGED <<taskVars, propVars, order, events, store, build, moreVars>>

\* BuildGraph.select_defaults: every task seen is a default task.
SelectDefaults ==
  /\ graph' = [graph EXCEPT !.selected = @ \cup graph.seen]
  /\ outcome' = [op |-> "select_defaults", task |-> "None", raised |-> NoError]
  /\ UNCHANGED <<taskVars, propVars, order, events, store, build, moreVars>>

\* A call of tasks_in_order() and the iteration of its result.
CallTasksInOrder ==
  \E r \in TasksInOrder(graph, tasks, props) :
    /\ order' = [yielded |-> r.yielded, raised |-> r.raised,
                 selected |-> graph.selected]
    /\ outcome' = [op |-> "tasks_in_order", task |-> "None", raised |-> r.raised]
    /\ UNCHANGED <<taskVars, propVars, graph, events, store, build, moreVars>>

\* Three tasks: a (ProducerTask), b (ConsumerTask) and c (a plain Task); the
\* depends_on and finalized_by calls a build script makes among them, and the
\* wiring of b.inp.
GraphTaskIds == {"a", "b", "c"}
GraphDependsOn == {<<"b", "a">>, <<"a", "b">>, <<"c", "b">>}
GraphFinalizedBy == {<<"a", "c">>}
GraphSetInputs == {<<"raw", NoValue>>, <<"provider", Ref("a.out")>>}

GraphInit ==
  /\ props = [p \in Templates \cup UNION {Declared(t) : t \in GraphTaskIds} |->
                IF p \in Templates THEN TemplateProperty(p)
                ELSE Instantiate(TemplateOf(p))]
  /\ hist = [p \in Templates \cup UNION {Declared(t) : t \in GraphTaskIds} |-> NewHist]
  /\ tasks = [t \in GraphTaskIds |-> NewTask]
  /\ ran = [t \in GraphTaskIds |-> <<>>]
  /\ assigned = [t \in GraphTaskIds |-> FALSE]
  /\ outcome = [op |-> "init", task |-> "None", raised |-> NoError]
  /\ graph = NewBuildGraph
  /\ order = NotCalled
  /\ events = <<>>
  /\ store = <<>>
  /\ build = FirstBuild
  /\ tree = NewTree
  /\ stream = NewStream
  /\ hash = NewHash

\* The build script runs before the graph is filled (__main__.py).
GraphNext ==
  \/ /\ graph.seen = {} /\ order = NotCalled
     /\ \/ \E d \in GraphDependsOn : DependsOn(d[1], d[2])
        \/ \E f \in GraphFinalizedBy : FinalizedBy(f[1], f[2])
        \/ \E x \in GraphSetInputs : Set("b.inp", x)
  \/ AddProject
  \/ \E t \in GraphTaskIds : Select(t)
  \/ SelectDefaults
  \/ CallTasksInOrder

GraphSpec == GraphInit /\ [][GraphNext]_vars

\* A call of BuildGraph.add_task on one task.
CallAddTask(t) ==
  LET r == AddTask(graph, t, tasks, props)
  IN /\ graph' = r.g
     /\ outcome' = [op |-> "add_task", task |-> t,
                    raised |-> IF r.ok THEN NoError ELSE AttributeError]
     /\ UNCHANGED <<taskVars, propVars, order, events, store, build, moreVars>>

\* The wiring of b.inp in a build script that also uses a.fn, the Output
\* property whose value comes from a default function.
NodeSetInputs == GraphSetInputs \cup {<<"provider", Ref("a.fn")>>}
NodeDependsOn == {<<"b", "a">>, <<"a", "b">>}

\* The calls a program makes on a BuildGraph, in any order, after the build
\* script has run.
NodeNext ==
  \/ /\ graph = NewBuildGraph /\ order = NotCalled
     /\ \/ \E d \in NodeDependsOn : DependsOn(d[1], d[2])
        \/ \E f \in GraphFinalizedBy : FinalizedBy(f[1], f[2])
        \/ \E x \in NodeSetInputs : Set("b.inp", x)
  \/ \E t \in GraphTaskIds : CallAddTask(t)
  \/ AddProject
  \/ \E t \in GraphTaskIds : Select(t)
  \/ SelectDefaults
  \/ CallTasksInOrder

NodeSpec == GraphInit /\ [][NodeNext]_vars

-----------------------------------------------------------------------------
(* The Executor, task inputs and the state tracker
   (executors/default.py, model/task.py, model/state_tracker.py) *)

RuntimeError == "RuntimeError"

\* TaskInputs.__init__: two empty dicts.
NewTaskInputs == [files |-> <<>>, values |-> <<>>]

\* d[k] = v on a dict.
DictSet(d, k, v) == [x \in DOMAIN d \cup {k} |-> IF x = k THEN v ELSE d[x]]

\* isinstance(value, str) or isinstance(value, list): the values of the model
\* stand for strings, NoValue for None.
IsStrOrList(v) == v # NoValue

\* The properties of a task sorted by key, as get_task_inputs() goes over them.
SortedProps(t) ==
  CASE t = "a" -> <<"a.fn", "a.out", "a.plain">>
    [] t = "b" -> <<"b.inp">>
    [] OTHER -> <<>>

RECURSIVE GetTaskInputsFrom(_, _, _)
\* The loop of Task.get_task_inputs over the properties left: a property marked
\* Input adds its value to `values`, one marked InputFile adds the list of its
\* value to `files`, another is skipped; the value is prop.or_none(), and one
\* that is neither a str nor a list raises RuntimeError.
GetTaskInputsFrom(keys, inputs, ps) ==
  IF keys = <<>> THEN [ok |-> TRUE, inputs |-> inputs, ps |-> ps]
  ELSE LET p == Head(keys)
       IN IF PropMarkers(p) \cap {"Input", "InputFile"} = {}
            THEN GetTaskInputsFrom(Tail(keys), inputs, ps)
            ELSE LET r == OrNone(Ref(p), ps)
                 IN IF ~IsStrOrList(r.v)
                      THEN [ok |-> FALSE, inputs |-> inputs, ps |-> r.ps]
                    ELSE IF "Input" \in PropMarkers(p)
                      THEN GetTaskInputsFrom(Tail(keys),
                             [inputs EXCEPT !.values = DictSet(@, p, r.v)], r.ps)
                      ELSE GetTaskInputsFrom(Tail(keys),
                             [inputs EXCEPT !.files = DictSet(@, p, <<r.v>>)], r.ps)

\* Task.get_task_inputs
GetTaskInputs(t, ps) == GetTaskInputsFrom(SortedProps(t), NewTaskInputs, ps)

\* TaskInputs.md5sum: the digest of the two dicts and of the contents of the
\* files, which stay as they are; distinct inputs have distinct digests.
Md5sum(inputs) == <<"md5", inputs.files, inputs.values>>

\* The empty byte string task_finished stores for a task that failed; no
\* digest equals it.
EmptyChecksum == <<"">>

\* SqliteStateTracker.task_inputs_changed
TaskInputsChanged(t, inputs, st) ==
  IF t \notin DOMAIN st THEN TRUE ELSE st[t] # Md5sum(inputs)

\* (mutant) a task_finished that stores the digest for a failed task too.
TaskFinishedAlwaysDigest(t, task, inputs, st) == DictSet(st, t, Md5sum(inputs))

\* SqliteStateTracker.task_finished: the store it leaves.
TaskFinished(t, task, inputs, st) ==
  DictSet(st, t, IF task.exception # NoError THEN EmptyChecksum ELSE Md5sum(inputs))

\* Task.before_execute on the properties of the task and the state tracker of
\* the environment.
BeforeExecuteInputs(t) ==
  LET i == GetTaskInputs(t, props)
  IN /\ props' = StripReads(i.ps)
     /\ hist' = HistRead(hist, i.ps)
     /\ IF ~i.ok
          THEN /\ outcome' = [op |-> "before_execute", task |-> t,
                              raised |-> RuntimeError]
               /\ UNCHANGED tasks
          ELSE /\ tasks' = [tasks EXCEPT ![t].dirty =
                    IF i.inputs.files = <<>> /\ i.inputs.values = <<>> THEN "True"
                    ELSE IF TaskInputsChanged(t, i.inputs, store) THEN "True"
                    ELSE "False"]
               /\ outcome' = [op |-> "before_execute", task |-> t, raised |-> NoError]
     /\ UNCHANGED <<ran, assigned, buildVars>>

\* Task.after_execute
AfterExecute(t) ==
  LET i == GetTaskInputs(t, props)
  IN /\ props' = StripReads(i.ps)
     /\ hist' = HistRead(hist, i.ps)
     /\ IF ~i.ok
          THEN /\ outcome' = [op |-> "after_execute", task |-> t,
                              raised |-> RuntimeError]
               /\ UNCHANGED store
          ELSE /\ store' = TaskFinished(t, tasks[t], i.inputs, store)
               /\ outcome' = [op |-> "after_execute", task |-> t, raised |-> NoError]
     /\ UNCHANGED <<taskVars, graph, order, events, build, moreVars>>

\* DefaultExecutor.execute_graph: `for task in graph.topological_order()`, a
\* method BuildGraph does not have, raises AttributeError before the loop is
\* entered.
ExecuteGraph ==
  /\ outcome' = [op |-> "execute_graph", task |-> "None", raised |-> AttributeError]
  /\ UNCHANGED <<taskVars, propVars, buildVars>>

\* The build program started again on the same build script and the same
\* build directory: new Task objects, configured, added and selected as
\* before, and the state tracker's store as the build before left it.  The
\* history keeps whether every task of that build had executed without an
\* exception, and the inputs each task had.
NewBuild ==
  /\ build' = [rerun |-> TRUE,
               succeeded |-> \A t \in DOMAIN tasks :
                               tasks[t].executed /\ tasks[t].exception = NoError,
               inputs |-> [t \in DOMAIN tasks |->
                             [ok |-> GetTaskInputs(t, props).ok,
                              inputs |-> GetTaskInputs(t, props).inputs]]]
  /\ tasks' = [t \in DOMAIN tasks |->
                 [tasks[t] EXCEPT !.executed = FALSE, !.did_work = FALSE,
                                  !.dirty = "None", !.exception = NoError]]
  /\ ran' = [t \in DOMAIN tasks |-> <<>>]
  /\ assigned' = [t \in DOMAIN tasks |-> FALSE]
  /\ events' = <<>>
  /\ outcome' = [op |-> "main", task |-> "None", raised |-> NoError]
  /\ UNCHANGED <<propVars, graph, order, store, moreVars>>

\* Task a (ProducerTask) and task b (ConsumerTask); what the build script may
\* have them perform, and what it may set b.inp to.
ExecActionKinds == {"lambda", "lambda_raise_a"}
ExecSetInputs == {<<"raw", 1>>, <<"provider", Ref("a.out")>>}

ExecInit == DepInit

\* A run of the build program (__main__.py): the build script, add_project,
\* select_defaults, and then the executor; before_execute() comes before a
\* task is executed and after_execute() after it.
ExecNext ==
  \/ /\ graph.seen = {}
     /\ \/ \E t \in DepTaskIds : \E a \in ExecActionKinds :
              tasks[t].actions = <<>> /\ Performs(t, a)
        \/ tasks["b"].dependencies = <<>> /\ DependsOn("b", "a")
        \/ \E x \in ExecSetInputs : Set("b.inp", x)
        \/ AddProject
  \/ /\ graph.seen # {} /\ graph.selected = {}
     /\ SelectDefaults
  \/ /\ graph.selected # {}
     /\ \/ ExecuteGraph
        \/ \E t \in DepTaskIds : \E s \in BOOLEAN : Run(t, s, TRUE)
        \/ \E t \in DepTaskIds : ~tasks[t].executed /\ BeforeExecuteInputs(t)
        \/ \E t \in DepTaskIds : tasks[t].executed /\ AfterExecute(t)
        \/ NewBuild

ExecSpec == ExecInit /\ [][ExecNext]_vars

-----------------------------------------------------------------------------
(* The state tracker on its own (model/state_tracker.py) *)

\* The TaskInputs the tracker is called with: none, a value, another value, a
\* file.
TrackerInputs ==
  {NewTaskInputs,
   [NewTaskInputs EXCEPT !.values = DictSet(@, "b.inp", 1)],
   [NewTaskInputs EXCEPT !.values = DictSet(@, "b.inp", 2)],
   [NewTaskInputs EXCEPT !.files = DictSet(@, "b.inp", <<1>>)]}

\* state_tracker.task_finished(task, inputs) for a task with the path t that
\* holds the exception exc.
TrackerTaskFinished(t, inputs, exc) ==
  /\ store' = TaskFinished(t, [tasks[t] EXCEPT !.exception = exc], inputs, store)
  /\ outcome' = [op |-> "task_finished", task |-> t, raised |-> NoError,
                 inputs |-> inputs, failed |-> exc # NoError]
  /\ UNCHANGED <<taskVars, propVars, graph, order, events, build, moreVars>>

\* state_tracker.task_inputs_changed(task, inputs), whose answer goes into
\* the outcome.
TrackerTaskInputsChanged(t, inputs) ==
  /\ outcome' = [op |-> "task_inputs_changed", task |-> t, raised |-> NoError,
                 inputs |-> inputs, result |-> TaskInputsChanged(t, inputs, store)]
  /\ UNCHANGED <<taskVars, propVars, buildVars>>

TrackerInit == DepInit

TrackerNext ==
  \/ \E t \in DepTaskIds, i \in TrackerInputs, exc \in {NoError, "err_a"} :
       TrackerTaskFinished(t, i, exc)
  \/ \E t \in DepTaskIds, i \in TrackerInputs : TrackerTaskInputsChanged(t, i)

TrackerSpec == TrackerInit /\ [][TrackerNext]_vars

-----------------------------------------------------------------------------
(* TaskInputs and its digest over the files (model/task.py) *)

\* The keys, values, paths and bytes of the model, the keys and the paths in
\* the order sorted() gives them.
KeyOrder == <<"a", "b">>
PathOrder == <<"f", "g">>
HashValues == {"1", "2"}
Bytes == {"x", "y"}
HashObjs == {"x", "y"}

\* A Python dict keeps its keys in the order of their first insertion: a
\* sequence of <<key, value>> pairs.
ODictKeys(d) == {d[i][1] : i \in 1..Len(d)}
ODictGet(d, k) == d[CHOOSE i \in 1..Len(d) : d[i][1] = k][2]
ODictSet(d, k, v) ==
  IF k \in ODictKeys(d)
    THEN [i \in 1..Len(d) |-> IF d[i][1] = k THEN <<k, v>> ELSE d[i]]
    ELSE Append(d, <<k, v>>)

\* d1 == d2 on two dicts: the same keys with the same values, in any order.
ODictEq(d1, d2) == {d1[i] : i \in 1..Len(d1)} = {d2[i] : i \in 1..Len(d2)}

RECURSIVE Flatten(_)
\* The concatenation of a sequence of sequences.
Flatten(ss) == IF ss = <<>> THEN <<>> ELSE Head(ss) \o Flatten(Tail(ss))

\* The members of an ordered universe that a set holds, in that order.
Sorted(universe, set) == SelectSeq(universe, LAMBDA k : k \in set)

\* json.dumps of a dict, as a sequence of tokens: with sort_keys the keys
\* come sorted, without in the order of insertion.  A value of `values` is a
\* string, one of `files` a list of paths.
JsonDict(d, sort_keys, is_list) ==
  LET keys == IF sort_keys THEN Sorted(KeyOrder, ODictKeys(d))
              ELSE [i \in 1..Len(d) |-> d[i][1]]
      item(k) == IF is_list THEN <<"[">> \o ODictGet(d, k) \o <<"]">>
                 ELSE <<ODictGet(d, k)>>
  IN <<"{">> \o Flatten([i \in 1..Len(keys) |-> <<keys[i], ":">> \o item(keys[i])])
       \o <<"}">>

\* json.dumps({'files': self.files, 'values': self.values}, sort_keys=...)
JsonDumps(inputs, sort_keys) ==
  <<"{", "files", ":">> \o JsonDict(inputs.files, sort_keys, TRUE)
    \o <<"values", ":">> \o JsonDict(inputs.values, sort_keys, FALSE) \o <<"}">>

\* sorted(f for files in self.files.values() for f in files): every listed
\* path as often as it is listed.
SortedPaths(inputs) ==
  LET d == inputs.files
      n(p) == Cardinality({ij \in (1..Len(d)) \X (1..2) :
                 ij[2] <= Len(d[ij[1]][2]) /\ d[ij[1]][2][ij[2]] = p})
  IN Flatten([i \in 1..Len(PathOrder) |-> [j \in 1..n(PathOrder[i]) |-> PathOrder[i]]])

RECURSIVE ReadChunks(_)
\* The loop `data = fp.read(n); if not data: break; hasher.update(data)`: the
\* bytes of the file, chunk after chunk.
ReadChunks(data) ==
  IF data = <<>> THEN <<>>
  ELSE IF Len(data) <= ReadSize THEN data
  ELSE SubSeq(data, 1, ReadSize) \o ReadChunks(SubSeq(data, ReadSize + 1, Len(data)))

\* What the file at a path feeds the hasher: nothing when open() raises
\* FileNotFoundError.
FileBytes(p, fs) == IF fs[p].exists THEN ReadChunks(fs[p].data) ELSE <<>>

\* hasher.hexdigest(): distinct byte streams have distinct digests.
Hexdigest(bytes) == <<"md5", bytes>>

\* (mutant) md5sum with a json.dumps that leaves the keys in insertion order.
TaskInputsMd5sumUnsorted(inputs, fs) ==
  LET paths == SortedPaths(inputs)
  IN Hexdigest(JsonDumps(inputs, FALSE)
       \o Flatten([i \in 1..Len(paths) |-> FileBytes(paths[i], fs)]))

\* TaskInputs.md5sum on the file system fs: the JSON text of the two dicts,
\* then the contents of the listed files in the sorted order of their paths.
TaskInputsMd5sum(inputs, fs) ==
  LET paths == SortedPaths(inputs)
  IN Hexdigest(JsonDumps(inputs, TRUE)
       \o Flatten([i \in 1..Len(paths) |-> FileBytes(paths[i], fs)]))

\* TaskInputs.set_input_value on the object o.
SetInputValue(o, k, v) ==
  /\ hash' = [hash EXCEPT ![o].values = ODictSet(@, k, v)]
  /\ outcome' = [op |-> "set_input_value", task |-> o, raised |-> NoError]
  /\ UNCHANGED <<taskVars, propVars, graph, order, events, store, build, tree, stream>>

\* The arguments of set_input_files: a str, lists of str, and something else.
FileArgs ==
  {[type |-> "str", v |-> <<"f">>], [type |-> "list", v |-> <<"g">>],
   [type |-> "list", v |-> <<"g", "f">>], [type |-> "int", v |-> <<>>]}

TypeError == "TypeError"

\* TaskInputs.set_input_files on the object o: a str becomes the list of
\* itself, what is neither a str nor a list raises TypeError.
SetInputFiles(o, k, value) ==
  /\ IF value.type \in {"str", "list"}
       THEN /\ hash' = [hash EXCEPT ![o].files = ODictSet(@, k, value.v)]
            /\ outcome' = [op |-> "set_input_files", task |-> o, raised |-> NoError]
       ELSE /\ outcome' = [op |-> "set_input_files", task |-> o, raised |-> TypeError]
            /\ UNCHANGED hash
  /\ UNCHANGED <<taskVars, propVars, graph, order, events, store, build, tree, stream>>

\* Another program writes the file at a path, or removes it.
WriteFile(p, data) ==
  /\ hash' = [hash EXCEPT !.fs[p] = [exists |-> TRUE, data |-> data]]
  /\ outcome' = [op |-> "write_file", task |-> p, raised |-> NoError]
  /\ UNCHANGED <<taskVars, propVars, graph, order, events, store, build, tree, stream>>

RemoveFile(p) ==
  /\ hash.fs[p].exists
  /\ hash' = [hash EXCEPT !.fs[p] = [exists |-> FALSE, data |-> <<>>]]
  /\ outcome' = [op |-> "remove_file", task |-> p, raised |-> NoError]
  /\ UNCHANGED <<taskVars, propVars, graph, order, events, store, build, tree, stream>>

\* TaskInputs.md5sum on the object o, whose digest goes into the outcome.
HashMd5sum(o) ==
  /\ outcome' = [op |-> "md5sum", task |-> o, raised |-> NoError,
                 digest |-> TaskInputsMd5sum(hash[o], hash.fs)]
  /\ UNCHANGED <<taskVars, propVars, buildVars>>

\* The byte strings a file may hold.
FileData == UNION {[1..n -> Bytes] : n \in 0..MaxFileLen}

\* The TaskInputs that y, filled before, may be.
OtherInputs ==
  {[files |-> <<>>, values |-> <<>>],
   [files |-> <<<<"a", <<"f">>>>>>, values |-> <<<<"a", "1">>>>],
   [files |-> <<<<"a", <<"g", "f">>>>>>, values |-> <<<<"a", "1">>, <<"b", "2">>>>]}

\* x is a new TaskInputs, y one of those filled before.
HashInit ==
  /\ tasks = [id \in TaskIds |-> NewTask]
  /\ ran = [id \in TaskIds |-> <<>>]
  /\ assigned = [id \in TaskIds |-> FALSE]
  /\ outcome = [op |-> "init", task |-> "x", raised |-> NoError]
  /\ props = <<>>
  /\ hist = <<>>
  /\ graph = NewBuildGraph
  /\ order = NotCalled
  /\ events = <<>>
  /\ store = <<>>
  /\ build = FirstBuild
  /\ tree = NewTree
  /\ stream = NewStream
  /\ \E other \in OtherInputs : hash = [NewHash EXCEPT !.y = other]

HashNext ==
  \/ \E k \in {"a", "b"}, v \in HashValues : SetInputValue("x", k, v)
  \/ \E value \in FileArgs : SetInputFiles("x", "a", value)
  \/ \E p \in {"f", "g"}, data \in FileData : WriteFile(p, data)
  \/ \E p \in {"f", "g"} : RemoveFile(p)
  \/ \E o \in HashObjs : HashMd5sum(o)

HashSpec == HashInit /\ [][HashNext]_vars

-----------------------------------------------------------------------------
(* The project tree (model/project.py) *)

ValueError == "ValueError"

\* a + ':' + b on names and paths.
Colon(a, b) == a \o b

\* The values of a dict, in the order of its keys.
ODictValues(d) == [i \in 1..Len(d) |-> d[i][2]]

RECURSIVE ProjectPath(_)
\* Project.path: the parent's path, a colon and the name; the name alone
\* for a project without parent.
ProjectPath(p) ==
  IF ProjectParent(p) # "None" THEN Colon(ProjectPath(ProjectParent(p)), ProjectName(p))
  ELSE ProjectName(p)

RECURSIVE ProjectRoot(_)
\* Project.root
ProjectRoot(p) == IF ProjectParent(p) # "None" THEN ProjectRoot(ProjectParent(p)) ELSE p

\* Task(project, name): a task of the project, without a group.
NewProjectTask(p, name) == [project |-> p, name |-> name, group |-> <<>>]

\* Task.path: project.path + ':' + name
TaskPath(task) == Colon(ProjectPath(task.project), task.name)

RECURSIVE IterSubProjects(_, _)
\* Project.iter_sub_projects(True): each child, followed by its sub-projects.
IterSubProjects(tr, p) ==
  LET cs == ODictValues(tr.children[p])
  IN Flatten([i \in 1..Len(cs) |-> <<cs[i]>> \o IterSubProjects(tr, cs[i])])

\* Project.iter_all_tasks: the tasks of the project, then those of its
\* sub-projects.
IterAllTasks(tr, p) ==
  LET subs == IterSubProjects(tr, p)
  IN ODictValues(tr.tasks[p])
       \o Flatten([i \in 1..Len(subs) |-> ODictValues(tr.tasks[subs[i]])])

\* The tree after project.task(name) registered its task.
WithTask(tr, p, name) ==
  [tr EXCEPT !.tasks[p] = ODictSet(@, name, NewProjectTask(p, name))]

\* The tree after `task.group = group` on the task of that name.
WithGroup(tr, p, name, group) ==
  [tr EXCEPT !.tasks[p] = ODictSet(@, name, [ODictGet(@, name) EXCEPT !.group = group])]

\* The tree after project.add_child_project(child) registered the child.
WithChild(tr, p, child) ==
  [tr EXCEPT !.children[p] = ODictSet(@, ProjectName(child), child)]

\* How a registration ended.
Registered(op, p, name, raised) ==
  [op |-> op, task |-> p, raised |-> raised, name |-> name]

TreeStep(new) ==
  /\ tree' = new
  /\ UNCHANGED <<taskVars, propVars, graph, order, events, store, build, stream, hash>>

\* (mutant) Project.task without the `if name in self.tasks: raise`.
ProjectTaskOverwrite(p, name) ==
  /\ TreeStep(WithTask(tree, p, name))
  /\ outcome' = Registered("task", p, name, NoError)

\* Project.task(name): a ValueError for a name in self.tasks, else the new
\* task is registered under its name.
ProjectTask(p, name) ==
  IF name \in ODictKeys(tree.tasks[p])
    THEN /\ TreeStep(tree)
         /\ outcome' = Registered("task", p, name, ValueError)
    ELSE /\ TreeStep(WithTask(tree, p, name))
         /\ outcome' = Registered("task", p, name, NoError)

\* task.group = 'run' on a task of the project.
SetGroup(p, name) ==
  /\ name \in ODictKeys(tree.tasks[p])
  /\ TreeStep(WithGroup(tree, p, name, <<"run">>))
  /\ outcome' = Registered("set_group", p, name, NoError)

\* Project.register_extension(name, obj)
RegisterExtension(p, name, obj) ==
  IF name \in ODictKeys(tree.extensions[p])
    THEN /\ TreeStep(tree)
         /\ outcome' = Registered("register_extension", p, name, ValueError)
    ELSE /\ TreeStep([tree EXCEPT !.extensions[p] = ODictSet(@, name, obj)])
         /\ outcome' = Registered("register_extension", p, name, NoError)

\* Project.add_child_project(child): `assert project.parent is self`, a
\* ValueError for a name in self._children, else the child is registered under
\* its name.
AddChildProject(p, child) ==
  IF ProjectParent(child) # p
    THEN /\ TreeStep(tree)
         /\ outcome' = Registered("add_child_project", p, ProjectName(child),
                                  AssertionError)
  ELSE IF ProjectName(child) \in ODictKeys(tree.children[p])
    THEN /\ TreeStep(tree)
         /\ outcome' = Registered("add_child_project", p, ProjectName(child),
                                  ValueError)
    ELSE /\ TreeStep(WithChild(tree, p, child))
         /\ outcome' = Registered("add_child_project", p, ProjectName(child), NoError)

\* The names the build scripts give to tasks, one of them with a colon.
TaskNames == {<<"build">>, <<"app", "build">>}

\* The number of tasks registered so far.
TaskCount == Len(tree.tasks["root"]) + Len(tree.tasks["app"]) + Len(tree.tasks["lib"])

TreeInit == Init

TreeNext ==
  \/ \E p \in {"root", "app", "lib"}, name \in TaskNames :
       /\ TaskCount < MaxTasks \/ name \in ODictKeys(tree.tasks[p])
       /\ ProjectTask(p, name)
  \/ \E p \in {"root", "app", "lib"}, name \in TaskNames : SetGroup(p, name)
  \/ \E obj \in {"o1", "o2"} : RegisterExtension("root", <<"ext">>, obj)
  \/ \E p \in {"root", "app"}, child \in {"app", "app2", "lib"} :
       AddChildProject(p, child)

TreeSpec == TreeInit /\ [][TreeNext]_vars

-----------------------------------------------------------------------------
(* Task selectors (Project.resolve_tasks) *)

\* arg.startswith(':') on a selector.
StartsWithColon(arg) == Len(arg) >= 2 /\ arg[1] = ""

\* self.name + arg for an arg that starts with a colon.
NamePlus(name, arg) == name \o Tail(arg)

\* The tests of the inner loop of resolve_tasks on one selector and one task:
\* for a selector that starts with a colon `task.path == self.name + arg`,
\* then `arg == task.path`, or the task has a group and `arg == ':' + group`.
ArgMatches(self, arg, task) ==
  \/ StartsWithColon(arg) /\ TaskPath(task) = NamePlus(ProjectName(self), arg)
  \/ arg = TaskPath(task)
  \/ task.group # <<>> /\ arg = <<"">> \o task.group

RECURSIVE FirstMatching(_, _, _, _)
\* `for arg in selectors:` up to its `break`: the index of the first selector
\* from j on that matches the task, 0 when none does.
FirstMatching(self, task, selectors, j) ==
  IF j > Len(selectors) THEN 0
  ELSE IF ArgMatches(self, selectors[j], task) THEN j
  ELSE FirstMatching(self, task, selectors, j + 1)

RECURSIVE ResolveLoop(_, _, _, _)
\* `for task in root.iter_all_tasks():` from the i-th task on: the first task
\* that a selector matches is appended to `selected`, that selector is
\* discarded from `unmatched`, and the `break` that follows ends the loop.
ResolveLoop(self, all, i, selectors) ==
  IF i > Len(all)
    THEN [selected |-> <<>>, unmatched |-> {selectors[j] : j \in 1..Len(selectors)}]
  ELSE LET j == FirstMatching(self, all[i], selectors, 1)
       IN IF j # 0
            THEN [selected |-> <<all[i]>>,
                  unmatched |-> {selectors[k] : k \in 1..Len(selectors)} \ {selectors[j]}]
            ELSE ResolveLoop(self, all, i + 1, selectors)

\* Project.resolve_tasks(selectors) on the project self: a ValueError that
\* names the selectors left in `unmatched`, else the list `selected`.
ResolveTasks(self, selectors) ==
  LET r == ResolveLoop(self, IterAllTasks(tree, ProjectRoot(self)), 1, selectors)
  IN /\ outcome' = [op |-> "resolve_tasks", task |-> self,
                    raised |-> IF r.unmatched # {} THEN ValueError ELSE NoError,
                    selectors |-> selectors,
                    selected |-> IF r.unmatched # {} THEN <<>> ELSE r.selected,
                    unmatched |-> r.unmatched]
     /\ UNCHANGED <<taskVars, propVars, buildVars>>

\* The tree of three tasks root:app:build, root:app:run (of the group run)
\* and root:lib:build, a tree of one task, and a tree without tasks.
SelectTrees ==
  LET two == WithChild(WithChild(NewTree, "root", "app"), "root", "lib")
      three == WithTask(WithTask(WithTask(two, "app", <<"build">>), "app", <<"run">>),
                        "lib", <<"build">>)
  IN {WithGroup(three, "app", <<"run">>, <<"run">>),
      WithTask(WithChild(NewTree, "root", "app"), "app", <<"build">>),
      NewTree}

\* The selectors "build", ":run", ":root:app:build", ":app:build" and "xyz",
\* and the lists of them a command line gives.
SelectorArgs ==
  {<<"build">>, <<"", "run">>, <<"", "root", "app", "build">>, <<"", "app", "build">>,
   <<"xyz">>}
SelectorLists == UNION {[1..n -> SelectorArgs] : n \in 0..MaxSelectors}

SelectInit ==
  /\ tasks = [id \in TaskIds |-> NewTask]
  /\ ran = [id \in TaskIds |-> <<>>]
  /\ assigned = [id \in TaskIds |-> FALSE]
  /\ outcome = [op |-> "init", task |-> "root", raised |-> NoError]
  /\ props = <<>>
  /\ hist = <<>>
  /\ graph = NewBuildGraph
  /\ order = NotCalled
  /\ events = <<>>
  /\ store = <<>>
  /\ build = FirstBuild
  /\ tree \in SelectTrees
  /\ stream = NewStream
  /\ hash = NewHash

SelectNext ==
  \E self \in {"root", "app"}, selectors \in SelectorLists : ResolveTasks(self, selectors)

SelectSpec == SelectInit /\ [][SelectNext]_vars

-----------------------------------------------------------------------------
(* stream_func_async (executors/default.py) *)

\* What is left of stream after the call changed it; nothing else changes.
StreamStep(new) ==
  /\ stream' = new
  /\ UNCHANGED <<taskVars, outcome, propVars, graph, order, events, store, build,
                 tree, hash>>

\* The worker, whose stdout and stderr are the FIFO, writes a byte while the
\* function it runs has not ended.
WorkerWrite(b) ==
  /\ stream.result = "None"
  /\ Len(stream.written) < MaxOutput
  /\ StreamStep([stream EXCEPT !.written = Append(@, b), !.fifo = Append(@, b)])

\* The function ends in the worker, returning or raising: the result of
\* apipe is ready.
WorkerFinish(r) ==
  /\ stream.result = "None"
  /\ StreamStep([stream EXCEPT !.result = r])

\* One pass of `while not result.ready():` in the parent.  With the result
\* ready the loop ends and `return result.get()` returns or raises.  Else
\* output.read(n) on the non-blocking FIFO gives up to n bytes to on_output;
\* with no byte in the FIFO it gives None (`break`, on to result.get()) or
\* raises BlockingIOError (`continue`).
ParentLoop(blocking_io_error) ==
  /\ stream.parent = "loop"
  /\ IF stream.result # "None"
       THEN StreamStep([stream EXCEPT !.parent =
                          IF stream.result = "ok" THEN "returned" ELSE "raised"])
     ELSE IF stream.fifo # <<>>
       THEN LET n == IF Len(stream.fifo) < FifoReadSize THEN Len(stream.fifo)
                     ELSE FifoReadSize
            IN StreamStep([stream EXCEPT
                 !.captured = @ \o SubSeq(stream.fifo, 1, n),
                 !.fifo = SubSeq(@, n + 1, Len(@))])
     ELSE IF blocking_io_error
       THEN StreamStep(stream)
       ELSE StreamStep([stream EXCEPT !.parent = "get"])

\* `return result.get()` after the `break`: waits for the worker, then
\* returns its result or raises its error.
ParentGet ==
  /\ stream.parent = "get"
  /\ stream.result # "None"
  /\ StreamStep([stream EXCEPT !.parent =
                   IF stream.result = "ok" THEN "returned" ELSE "raised"])

StreamInit == Init

StreamNext ==
  \/ \E b \in Bytes : WorkerWrite(b)
  \/ \E r \in {"ok", "boom"} : WorkerFinish(r)
  \/ \E e \in BOOLEAN : ParentLoop(e)
  \/ ParentGet

StreamSpec == StreamInit /\ [][StreamNext]_vars

-----------------------------------------------------------------------------
(* One call of stream_func_async with its FifoMaker, the helper thread of
   create() and the worker process, step by step (FifoSpec).  The state is
   kept in the variable stream. *)

FileExistsError == "FileExistsError"

\* The state when stream_func_async is entered: main, helper and worker say
\* where the parent, the helper thread and the worker process are; opened is
\* the Event fifo_opened and exception is FifoMaker._exception; node is what
\* the path names in the file system ("none", "fifo" or "file"); target is
\* what the worker's stdout was opened on; todo is the number of bytes the
\* task function writes before it ends and written the number it has written;
\* buffered is the number of bytes in the pipe that were not read and captured
\* the number given to on_output; pending is what the call raises or returns
\* when the ExitStack is left; on_event and timedout record that create()
\* returned with the event set and that the join of open_read() timed out.
NewFifoRun ==
  [main |-> "create", helper |-> "unstarted", opened |-> FALSE,
   exception |-> NoError, node |-> "none", worker |-> "unsubmitted",
   target |-> "None", todo |-> 0, written |-> 0, buffered |-> 0, captured |-> 0,
   result |-> "None", pending |-> "None", on_event |-> FALSE, timedout |-> FALSE]

\* FifoMaker.create up to the wait: the thread is started.
Create ==
  /\ stream.main = "create"
  /\ StreamStep([stream EXCEPT !.main = "wait", !.helper = "started"])

\* fifo_opened.wait(timeout=self._timeout) returns: the event is set, or the
\* timeout has passed.
CreateReturns ==
  /\ stream.main = "wait"
  /\ StreamStep([stream EXCEPT !.main = "apipe", !.on_event = stream.opened])

\* processing_pool.apipe(_stream_func_async_internal, func, fifo_path): the
\* worker is handed the function, which writes n bytes.
Apipe(n) ==
  /\ stream.main = "apipe"
  /\ StreamStep([stream EXCEPT !.main = "join", !.worker = "queued", !.todo = n])

\* FifoMaker.open_read up to its branches: the join returns with the thread
\* ended, or the rest of the timeout has passed and the thread is alive.  An
\* exception of the thread is raised; without one the FIFO is opened next.
OpenReadJoin ==
  /\ stream.main = "join"
  /\ IF stream.helper = "done"
       THEN IF stream.exception # NoError
              THEN StreamStep([stream EXCEPT !.main = "exit",
                                             !.pending = stream.exception])
              ELSE StreamStep([stream EXCEPT !.main = "open_rb"])
       ELSE StreamStep([stream EXCEPT !.main = "timeout_open", !.timedout = TRUE])

\* `with open(self._path, 'wb'): pass` of the timeout branch: creates a
\* regular file, or truncates the one there; on a FIFO the open blocks until
\* the FIFO has a reader.
OpenReadTimeoutOpen ==
  /\ stream.main = "timeout_open"
  /\ stream.node # "fifo"
  /\ StreamStep([stream EXCEPT !.main = "timeout_remove", !.node = "file"])

\* self.remove() of the timeout branch.
OpenReadTimeoutRemove ==
  /\ stream.main = "timeout_remove"
  /\ StreamStep([stream EXCEPT !.main = "timeout_join", !.node = "none"])

\* self._thread.join() of the timeout branch, then the RuntimeError.
OpenReadTimeoutJoin ==
  /\ stream.main = "timeout_join"
  /\ stream.helper = "done"
  /\ StreamStep([stream EXCEPT !.main = "exit", !.pending = FifoTimeout])

\* `return open(self._path, 'rb')` and the `open(fifo_path, 'wb')` of the
\* worker: on a FIFO each open blocks until the other end is opened, and both
\* return together.  (The path names the FIFO here: the thread has ended
\* without an exception and only the parent removes the path.)
OpenReadOpen ==
  /\ stream.main = "open_rb"
  /\ stream.node = "fifo"
  /\ stream.worker = "queued"
  /\ StreamStep([stream EXCEPT !.main = "loop", !.worker = "running",
                               !.target = "fifo"])

\* One pass of `while not result.ready():` on the pipe: as ParentLoop, the
\* bytes counted.
FifoParentLoop(blocking_io_error) ==
  /\ stream.main = "loop"
  /\ IF stream.result # "None"
       THEN StreamStep([stream EXCEPT !.main = "exit", !.pending = stream.result])
     ELSE IF stream.buffered > 0
       THEN LET n == IF stream.buffered < FifoReadSize THEN stream.buffered
                     ELSE FifoReadSize
            IN StreamStep([stream EXCEPT !.captured = @ + n, !.buffered = @ - n])
     ELSE IF blocking_io_error
       THEN StreamStep(stream)
       ELSE StreamStep([stream EXCEPT !.main = "get"])

\* `return result.get()` after the `break`.
FifoParentGet ==
  /\ stream.main = "get"
  /\ stream.result # "None"
  /\ StreamStep([stream EXCEPT !.main = "exit", !.pending = stream.result])

\* The ExitStack is left: FifoMaker.__exit__ removes the path, and the call
\* returns or raises.
FifoExit ==
  /\ stream.main = "exit"
  /\ StreamStep([stream EXCEPT !.node = "none",
                               !.main = IF stream.pending = "ok" THEN "returned"
                                                                 ELSE "raised"])

\* _open_fifo_worker: the first fifo_opened.set().
OpenFifoWorkerSet ==
  /\ stream.helper = "started"
  /\ StreamStep([stream EXCEPT !.helper = "mkfifo", !.opened = TRUE])

\* _open_fifo_worker: os.mkfifo, which raises FileExistsError when the path
\* names something; the error is stored in self._exception.
OpenFifoWorkerMkfifo ==
  /\ stream.helper = "mkfifo"
  /\ IF stream.node = "none"
       THEN StreamStep([stream EXCEPT !.helper = "finally", !.node = "fifo"])
       ELSE StreamStep([stream EXCEPT !.helper = "finally",
                                      !.exception = FileExistsError])

\* _open_fifo_worker: the set() of the finally clause; the thread ends.
OpenFifoWorkerEnd ==
  /\ stream.helper = "finally"
  /\ StreamStep([stream EXCEPT !.helper = "done", !.opened = TRUE])

\* _stream_func_async_internal: open(fifo_path, 'wb') where the path does not
\* name a FIFO creates or truncates a regular file.
InternalOpenFile ==
  /\ stream.worker = "queued"
  /\ stream.node # "fifo"
  /\ StreamStep([stream EXCEPT !.worker = "running", !.target = "file",
                               !.node = "file"])

\* The task function writes a byte to its stdout: into the pipe, when the
\* pipe has room, or into the regular file.
InternalWrite ==
  /\ stream.worker = "running"
  /\ stream.written < stream.todo
  /\ stream.target = "fifo" => stream.buffered < PipeCapacity
  /\ StreamStep([stream EXCEPT !.written = @ + 1,
                               !.buffered = IF stream.target = "fifo" THEN @ + 1
                                                                      ELSE @])

\* The task function ends, all its bytes written: the result is ready.
InternalFinish(r) ==
  /\ stream.worker = "running"
  /\ stream.written = stream.todo
  /\ StreamStep([stream EXCEPT !.worker = "finished", !.result = r])

FifoInit ==
  /\ tasks = [id \in TaskIds |-> NewTask]
  /\ ran = [id \in TaskIds |-> <<>>]
  /\ assigned = [id \in TaskIds |-> FALSE]
  /\ outcome = [op |-> "init", task |-> "t1", raised |-> NoError]
  /\ props = <<>>
  /\ hist = <<>>
  /\ graph = NewBuildGraph
  /\ order = NotCalled
  /\ events = <<>>
  /\ store = <<>>
  /\ build = FirstBuild
  /\ tree = NewTree
  /\ stream = NewFifoRun
  /\ hash = NewHash

\* The steps of the parent, of the helper thread and of the worker process.
FifoParentStep ==
  \/ Create
  \/ CreateReturns
  \/ \E n \in 0..MaxOutput : Apipe(n)
  \/ OpenReadJoin
  \/ OpenReadTimeoutOpen
  \/ OpenReadTimeoutRemove
  \/ OpenReadTimeoutJoin
  \/ OpenReadOpen
  \/ \E e \in BOOLEAN : FifoParentLoop(e)
  \/ FifoParentGet
  \/ FifoExit
FifoHelperStep ==
  \/ OpenFifoWorkerSet
  \/ OpenFifoWorkerMkfifo
  \/ OpenFifoWorkerEnd
FifoWorkerStep ==
  \/ InternalOpenFile
  \/ InternalWrite
  \/ \E r \in {"ok", "boom"} : InternalFinish(r)

FifoNext == FifoParentStep \/ FifoHelperStep \/ FifoWorkerStep

FifoSpec == FifoInit /\ [][FifoNext]_vars

\* Fair scheduling: the parent, the helper thread and the worker process each
\* take a step they can take.
FifoFairSpec ==
  FifoSpec /\ WF_vars(FifoParentStep) /\ WF_vars(FifoHelperStep)
           /\ WF_vars(FifoWorkerStep)

-----------------------------------------------------------------------------
(* Task.get_task_inputs on typed values (MarkerSpec): a task t with the
   properties p and q, each declared with one marker or none; props holds the
   markers and the value of each, a value being a record as in FileArgs. *)

MarkerKeys == <<"p", "q">>
MarkerSets == {{}, {"Input"}, {"InputFile"}, {"InputDir"}, {"Output"}}
NoneValue == [type |-> "NoneType", v |-> <<>>]
MarkerValues == FileArgs \cup {NoneValue}

RECURSIVE GetTaskInputsByMarker(_, _, _)
\* The loop of Task.get_task_inputs over the sorted keys left, the value of
\* prop.or_none() being the value the property holds: a property with the
\* Input marker goes to set_input_value, else one with the InputFile marker to
\* set_input_files (which stores the list of a str), any other is skipped; a
\* value that is neither a str nor a list raises RuntimeError.
GetTaskInputsByMarker(keys, inputs, ps) ==
  IF keys = <<>> THEN [raised |-> NoError, inputs |-> inputs]
  ELSE LET key == Head(keys)
           prop == ps[key]
       IN IF "Input" \notin prop.markers /\ "InputFile" \notin prop.markers
            THEN GetTaskInputsByMarker(Tail(keys), inputs, ps)
          ELSE IF prop.value.type \notin {"str", "list"}
            THEN [raised |-> RuntimeError, inputs |-> inputs]
          ELSE IF "Input" \in prop.markers
            THEN GetTaskInputsByMarker(Tail(keys),
                   [inputs EXCEPT !.values = ODictSet(@, key, prop.value)], ps)
            ELSE GetTaskInputsByMarker(Tail(keys),
                   [inputs EXCEPT !.files = ODictSet(@, key, prop.value.v)], ps)

\* prop.set(value) on the property key of the task.
MarkerSet(key, value) ==
  /\ props' = [props EXCEPT ![key].value = value]
  /\ outcome' = [op |-> "set", task |-> key, raised |-> NoError,
                 inputs |-> NewTaskInputs]
  /\ UNCHANGED <<taskVars, hist, buildVars>>

\* A call of task.get_task_inputs().
CallGetTaskInputs ==
  LET r == GetTaskInputsByMarker(MarkerKeys, NewTaskInputs, props)
  IN /\ outcome' = [op |-> "get_task_inputs", task |-> "t", raised |-> r.raised,
                    inputs |-> r.inputs]
     /\ UNCHANGED <<taskVars, propVars, buildVars>>

MarkerInit ==
  /\ tasks = [id \in TaskIds |-> NewTask]
  /\ ran = [id \in TaskIds |-> <<>>]
  /\ assigned = [id \in TaskIds |-> FALSE]
  /\ outcome = [op |-> "init", task |-> "t", raised |-> NoError,
                inputs |-> NewTaskInputs]
  /\ \E mp, mq \in MarkerSets :
       props = [k \in {"p", "q"} |->
                  [markers |-> IF k = "p" THEN mp ELSE mq, value |-> NoneValue]]
  /\ hist = <<>>
  /\ graph = NewBuildGraph
  /\ order = NotCalled
  /\ events = <<>>
  /\ store = <<>>
  /\ build = FirstBuild
  /\ tree = NewTree
  /\ stream = NewStream
  /\ hash = NewHash

MarkerNext ==
  \/ \E key \in {"p", "q"}, value \in MarkerValues : MarkerSet(key, value)
  \/ CallGetTaskInputs

MarkerSpec == MarkerInit /\ [][MarkerNext]_vars

-----------------------------------------------------------------------------
(* Claims about dependencies (DepSpec) *)

RECURSIVE Mentions(_)
\* The properties a provider term names: itself, its sub-providers, the
\* properties its function captures.
Mentions(e) ==
  CASE Kind(e) = "prop" -> {e[2]}
    [] Kind(e) \in {"map", "flatmap"} ->
         Mentions(e[3]) \cup {Captured(e[2])[i] : i \in 1..Len(Captured(e[2]))}
    [] Kind(e) = "coalesce" -> Mentions(e[2]) \cup Mentions(e[3])
    [] OTHER -> {}

RECURSIVE ReachFrom(_, _)
\* The properties reachable from those of S in n steps, a step going from a
\* property to those its installed value or its default names.
ReachFrom(S, n) ==
  IF n = 0 THEN S
  ELSE ReachFrom(S \cup UNION {Mentions(props[p].value) \cup Mentions(props[p].default) :
                                 p \in S}, n - 1)

\* The properties reachable from the installed values of t's declared
\* properties.
Reachable(t) ==
  ReachFrom(UNION {Mentions(props[p].value) : p \in Declared(t)},
            Cardinality(DOMAIN props))

\* C5 as stated: when the value installed in b.inp names an Output property
\* declared on task a (directly, wrapped in map/flatmap/coalesce, or captured by
\* a mapping function), b.compute_all_dependencies() returns a set that
\* contains a, without any depends_on call.
C5_AsClaimed ==
  \A q \in Declared("a") :
    ( /\ "Output" \in PropMarkers(q)
      /\ q \in Mentions(props["b.inp"].value)
      /\ tasks["b"].dependencies = <<>> )
    => LET r == ComputeAllDependencies("b", tasks, props)
       IN r.ok /\ "a" \in r.found

\* C6: a set returned by t.compute_all_dependencies() holds only tasks passed
\* to t.depends_on and origins of Output properties reachable from the
\* installed values of t's declared properties.
C6_NoSpuriousDependency ==
  \A t \in DepTaskIds :
    LET r == ComputeAllDependencies(t, tasks, props)
    IN r.ok =>
         r.found \subseteq
           TaskSet(tasks[t].dependencies) \cup
           {PropOrigin(q) : q \in {c \in Reachable(t) :
                                     /\ "Output" \in PropMarkers(c)
                                     /\ PropOrigin(c) # "None"}}

\* C6 witness: b.compute_all_dependencies() has returned the empty set with
\* a.plain, which lacks the Output marker, wired into b.inp.
C6_Witness ==
  /\ outcome = [op |-> "compute_all_dependencies", task |-> "b", raised |-> NoError]
  /\ props["b.inp"].value = Ref("a.plain")
  /\ props["a.plain"].value = Box(NoValue)
  /\ tasks["b"].dependencies = <<>>
  /\ ComputeAllDependencies("b", tasks, props) = Visited({})

-----------------------------------------------------------------------------
(* Claims about the build graph (GraphSpec) *)

\* u comes before v in the list s.
Before(s, u, v) ==
  \E i, j \in 1..Len(s) : i < j /\ s[i] = u /\ s[j] = v

\* The sub-graph of the selection the last tasks_in_order() started from.
SelectedClosure ==
  AddTasks(NewBuildGraph, SetToSeq(order.selected), tasks, props).g

\* C12: in a sequence tasks_in_order() produced to its end, every task comes
\* after each of its dependencies, explicit or derived from properties, and
\* every finalizer comes after the task it finalizes.
C12_OrderRespectsEdges ==
  order.raised = NoError =>
    \A v \in Elems(order.yielded) :
      /\ \A u \in TaskSet(tasks[v].dependencies) : Before(order.yielded, u, v)
      /\ \A u \in ComputeAllDependencies(v, tasks, props).found :
           Before(order.yielded, u, v)
      /\ \A f \in TaskSet(tasks[v].finalizers) : Before(order.yielded, v, f)

\* C12 witness: an order of all three tasks, with a dependency of b on a that
\* comes from b.inp only, an explicit dependency of c and a finalizer of a.
C12_Witness ==
  /\ order.raised = NoError
  /\ Len(order.yielded) = 3
  /\ tasks["b"].dependencies = <<>>
  /\ props["b.inp"].value = Ref("a.out")
  /\ tasks["c"].dependencies # <<>>
  /\ tasks["a"].finalizers # <<>>

\* The place of a task's path in the lexicographic order of the paths.
PathRank(t) == CASE t = "a" -> 1 [] t = "b" -> 2 [] OTHER -> 3

RECURSIVE LexicographicKahn(_, _, _)
\* What C13 describes: among the nodes whose predecessors were emitted, the
\* one with the smallest path next.
LexicographicKahn(nodes, edges, emitted) ==
  LET ready == {n \in nodes \ Elems(emitted) :
                  \A ed \in edges : ed[2] = n => ed[1] \in Elems(emitted)}
  IN IF ready = {} THEN emitted
     ELSE LexicographicKahn(nodes, edges,
            Append(emitted, CHOOSE n \in ready :
                              \A m \in ready : PathRank(n) <= PathRank(m)))

\* C13 as stated: the sequence tasks_in_order() produces is the one that emits,
\* at each step, the task with the lexicographically smallest path among those
\* whose predecessors have all been emitted.
C13_AsClaimed ==
  order.raised = NoError =>
    order.yielded =
      LexicographicKahn(SelectedClosure.seen, SelectedClosure.edges, <<>>)

RECURSIVE Descendants(_, _, _)
\* The nodes reached from those of S along at most k more edges, S itself
\* left out unless reached.
Descendants(S, edges, k) ==
  LET next == {ed[2] : ed \in {x \in edges : x[1] \in S}}
  IN IF k = 0 THEN {} ELSE next \cup Descendants(next, edges, k - 1)

\* The nodes on a cycle of the graph, and those on or behind one.
OnCycle(g) ==
  {n \in g.seen : n \in Descendants({n}, g.edges, Cardinality(g.seen))}
BehindCycle(g) ==
  OnCycle(g) \cup Descendants(OnCycle(g), g.edges, Cardinality(g.seen))

-----------------------------------------------------------------------------
(* Claims about finalization (FinSpec) *)

\* What a call of get() on p answers in the store ps: the value, NoValue when
\* it raises NoValuePresent.
GetAnswer(p, ps) ==
  LET r == Call("get", Ref(p), ps) IN IF r.ok THEN r.v ELSE NoValue

\* What evaluating p afresh answers in the store ps (Property._get_value).
FreshAnswer(p, ps) ==
  LET r == Call("_get_value", Ref(p), ps) IN IF r.ok THEN r.v ELSE NoValue

\* Every p.set(x) raises and leaves the store as it is.
SetFails(p) ==
  \A x \in FinSetInputs(p) :
    LET r == PropertySet(p, x, props) IN r.raised /\ r.ps = props

\* C7: once p.finalize() has succeeded, every p.set(x) fails and leaves p
\* unchanged, and p.get() answers what finalize() returned then (a finalize()
\* that returned None has get() raise NoValuePresent), whatever the upstream
\* properties were set to since.
C7_FinalizedKeepsSnapshot ==
  \A p \in DOMAIN hist :
    hist[p].snap # {} => SetFails(p) /\ GetAnswer(p, props) \in hist[p].snap

\* C7 witness: p2 was finalized with a value, and its upstream was set since
\* to something that evaluates to another value.
C7_Witness ==
  /\ hist["p2"].snap \in {{v} : v \in Values}
  /\ FreshAnswer("p2", props) \notin hist["p2"].snap
  /\ FreshAnswer("p2", props) # NoValue

\* C8 as stated: after p.finalize_on_read() the first p.get() answers what a
\* fresh evaluation answers at that moment, every later p.get() answers what the
\* first one did, and p.set() fails from the call on.
C8_AsClaimed ==
  \A p \in DOMAIN hist :
    /\ hist[p].await # "none" => GetAnswer(p, props) = FreshAnswer(p, props)
    /\ hist[p].first # {} => GetAnswer(p, props) \in hist[p].first
    /\ (hist[p].await # "none" \/ hist[p].first # {}) => SetFails(p)

\* C8 (amended): the first p.get() after p.finalize_on_read() reflects the
\* upstream changes made before it when p was not finalized at the call and
\* p.finalize() has not been called in between; in every case the later
\* p.get() answer what the first one did, and p.set() fails from the call on.
C8_FirstReadOfUnfinalizedIsFresh ==
  \A p \in DOMAIN hist :
    /\ hist[p].await = "fresh" => GetAnswer(p, props) = FreshAnswer(p, props)
    /\ hist[p].first # {} => GetAnswer(p, props) \in hist[p].first
    /\ (hist[p].await # "none" \/ hist[p].first # {}) => SetFails(p)

\* C8 witness: the first get() after p2.finalize_on_read() returned a value,
\* and the upstream of p2 was set since to something that evaluates to another
\* value.
C8_Witness ==
  /\ hist["p2"].first \in {{v} : v \in Values}
  /\ hist["p2"].snap = {}
  /\ FreshAnswer("p2", props) \notin hist["p2"].first
  /\ FreshAnswer("p2", props) # NoValue

-----------------------------------------------------------------------------
(* Claims about evaluation (EvalSpec) *)

\* What the claimed order of C9 answers for p: the installed value, else the
\* default function's result, else the default provider's value; NoValue when
\* all are absent.
ClaimedAnswer(p) ==
  LET v == OrNone(props[p].value, props).v
  IN IF v # NoValue THEN v
     ELSE IF props[p].default_func # NoFunc
            THEN DefaultFuncResult(props[p].default_func)
     ELSE IF props[p].default = NoProvider THEN NoValue
     ELSE OrNone(props[p].default, props).v

\* C9 as stated: get() on an unfinalized property answers the installed value
\* when present, else the default function's result, else the default
\* provider's value, and raises NoValuePresent exactly when all are absent.
C9_AsClaimed ==
  \A p \in DOMAIN props :
    ~props[p].finalized => GetAnswer(p, props) = ClaimedAnswer(p)

\* The providers at hand in a state: each property, and each value and default
\* installed in one.
ProvidersAtHand ==
  {Ref(p) : p \in DOMAIN props}
    \cup {props[p].value : p \in DOMAIN props}
    \cup ({props[p].default : p \in DOMAIN props} \ {NoProvider})

\* C10 as stated: a provider that is truthy has get() succeed and or_else(v)
\* equal to get(); a provider that is falsy has or_else(v) equal to v.
C10_AsClaimed ==
  \A e \in ProvidersAtHand : \A v \in Values :
    LET b == ProviderBool(e, props).b
        g == ProviderGet(e, props)
        o == OrElse(e, v, props).v
    IN /\ b => g.ok /\ o = g.v
       /\ ~b => o = v

-----------------------------------------------------------------------------
(* Claims about collect_properties (EvalSpec) *)

RECURSIVE ClaimedCollect(_)
\* What C11 describes: the properties reachable through a provider, depth
\* first: a property and then those of its installed value, the upstream of a
\* map or flatmap and then the properties its function captures, both branches
\* of a coalesce.
ClaimedCollect(e) ==
  CASE Kind(e) = "prop" -> <<e[2]>> \o ClaimedCollect(props[e[2]].value)
    [] Kind(e) \in {"map", "flatmap"} ->
         ClaimedCollect(e[3]) \o
           (IF Captured(e[2]) = <<>> THEN <<>>
            ELSE ClaimedCollect(Ref(Captured(e[2])[1])))
    [] Kind(e) = "coalesce" -> ClaimedCollect(e[2]) \o ClaimedCollect(e[3])
    [] OTHER -> <<>>

\* C11 as stated: collect_properties(expr) returns the properties reachable
\* through expr, and no others, in depth-first order with the upstream of a
\* mapping before the properties its function captures.
C11_AsClaimed ==
  \A e \in ProvidersAtHand :
    LET r == CollectProperties(e, props)
    IN r.ok /\ r.found = ClaimedCollect(e)

-----------------------------------------------------------------------------
(* Claims about the Executor and incremental builds (ExecSpec) *)

\* The places in the listener's log of the given notification for task t.
Pos(ev, t) == {i \in 1..Len(events) : events[i].ev = ev /\ events[i].task = t}

\* The tasks execute_graph has to run: the selected ones with their
\* transitive dependencies and finalizers.
ExecClosure == AddTasks(NewBuildGraph, SetToSeq(graph.selected), tasks, props).g.seen

\* No action of any task raises.
NoTaskFails ==
  \A t \in DOMAIN tasks : \A i \in 1..Len(tasks[t].actions) : ~Raises(tasks[t].actions[i])

\* C15 as stated: when no task fails, execute_graph(graph) ends without an
\* error, having executed every task of the closure of the selected tasks
\* exactly once and no task outside it.
C15_AsClaimed ==
  (outcome.op = "execute_graph" /\ NoTaskFails) =>
    /\ outcome.raised = NoError
    /\ \A t \in ExecClosure : tasks[t].executed /\ ran[t] = tasks[t].actions
    /\ \A t \in DOMAIN tasks \ ExecClosure : ~tasks[t].executed /\ ran[t] = <<>>

\* C16 as stated: for every edge u -> v of the build graph, the Executor has
\* not told the listener that v begins before u was executed and its result
\* was taken over by the parent (u's task_execute_end).
C16_AsClaimed ==
  \A ed \in graph.edges :
    \A j \in Pos("begin", ed[2]) : \E i \in Pos("end", ed[1]) : i < j

\* The first task_execute_end of a task that holds an exception.
FirstFailure ==
  CHOOSE i \in 1..Len(events) :
    /\ events[i].ev = "end" /\ events[i].exception # NoError
    /\ \A k \in 1..(i - 1) : ~(events[k].ev = "end" /\ events[k].exception # NoError)

\* C17 as stated: after a task run by the Executor has ended with an
\* exception no task is started, and execute_graph raises that first error.
C17_AsClaimed ==
  /\ \A i, j \in 1..Len(events) :
       (i < j /\ events[i].ev = "end" /\ events[i].exception # NoError)
         => events[j].ev # "begin"
  /\ (/\ outcome.op = "execute_graph"
      /\ \E i \in 1..Len(events) : events[i].ev = "end" /\ events[i].exception # NoError)
       => outcome.raised = events[FirstFailure].exception

\* The error C18 names.
DependencyError == "DependencyError"

\* C18 as stated: a task the Executor reaches while one of its direct
\* dependencies holds an exception runs no action, holds a DependencyError and
\* is executed; and no task begins unless each of its direct dependencies has
\* ended without an exception.
C18_AsClaimed ==
  /\ \A t \in DOMAIN tasks :
       (/\ outcome.op = "run" /\ outcome.task = t
        /\ \E d \in TaskSet(tasks[t].dependencies) : tasks[d].exception # NoError)
         => /\ ran[t] = <<>>
            /\ tasks[t].executed
            /\ tasks[t].exception = DependencyError
  /\ \A t \in DOMAIN tasks : \A j \in Pos("begin", t) :
       \A d \in TaskSet(tasks[t].dependencies) :
         \E i \in Pos("end", d) : i < j /\ events[i].exception = NoError

\* The Input and InputFile properties of t are all unset.
AllInputsUnset(t) ==
  \A i \in 1..Len(SortedProps(t)) :
    PropMarkers(SortedProps(t)[i]) \cap {"Input", "InputFile"} # {}
      => OrNone(Ref(SortedProps(t)[i]), props).v = NoValue

\* C19 as stated: before_execute() of a task without an input that is set
\* returns with dirty = True; of a task whose inputs could be computed and are
\* not empty, with dirty the state tracker's answer.
C19_AsClaimed ==
  \A t \in DOMAIN tasks :
    (outcome.op = "before_execute" /\ outcome.task = t) =>
      IF AllInputsUnset(t)
        THEN outcome.raised = NoError /\ tasks[t].dirty = "True"
        ELSE GetTaskInputs(t, props).ok =>
               /\ outcome.raised = NoError
               /\ tasks[t].dirty =
                    IF TaskInputsChanged(t, GetTaskInputs(t, props).inputs, store)
                      THEN "True" ELSE "False"

\* C20 as stated: in a build that follows one in which every task succeeded,
\* a task that performs an action and has a non-empty input that is what it
\* was in that build has, once the Executor is done with it, run no action,
\* did_work = False and status UPTODATE.
C20_AsClaimed ==
  \A t \in DOMAIN tasks :
    (/\ build.rerun /\ build.succeeded
     /\ tasks[t].actions # <<>>
     /\ GetTaskInputs(t, props).ok
     /\ GetTaskInputs(t, props).inputs # NewTaskInputs
     /\ build.inputs[t].ok
     /\ build.inputs[t].inputs = GetTaskInputs(t, props).inputs
     /\ Pos("end", t) # {})
      => /\ ran[t] = <<>>
         /\ ~tasks[t].did_work
         /\ TaskStatus(tasks[t]) = "UPTODATE"

\* C21 as stated: once the Executor is done with a task it ran, the state
\* tracker holds for the task's path the digest of the task's inputs when the
\* task succeeded and the empty checksum when it holds an exception.
C21_AsClaimed ==
  \A t \in DOMAIN tasks :
    Pos("end", t) # {} =>
      /\ t \in DOMAIN store
      /\ store[t] = IF tasks[t].exception # NoError \/ ~GetTaskInputs(t, props).ok
                      THEN EmptyChecksum
                      ELSE Md5sum(GetTaskInputs(t, props).inputs)

-----------------------------------------------------------------------------
(* Claims about the worker mode of the Executor (Spec, ExecSpec) *)

\* A step in which run() handed the task id to a worker.
WorkerRunStep(id) ==
  /\ outcome'.op = "run" /\ outcome'.task = id
  /\ ~outcome'.sequential
  /\ ~tasks[id].executed
  /\ outcome'.raised # AssertionError

\* C22 as stated: in worker mode, when running the task in the worker fails
\* (the call did not get to run the worker, or an action raised in the worker),
\* _run_single_task returns normally and the parent's task is executed and
\* holds that error.
C22_AsClaimed ==
  [][\A id \in DOMAIN tasks :
       LET k == FirstRaising(tasks[id].actions)
       IN (WorkerRunStep(id) /\ (~outcome'.fifo_ok \/ k # 0)) =>
            /\ outcome'.raised = NoError
            /\ tasks'[id].executed
            /\ tasks'[id].exception =
                 IF ~outcome'.fifo_ok THEN FifoTimeout
                 ELSE ErrorOf(tasks[id].actions[k])]_vars

\* The attributes of a task whose name starts with an underscore, and the
\* public ones.
Underscore(t) ==
  <<t.actions, t.dependencies, t.finalizers, t.project, t.is_deserialized,
    t.cached_path>>
Public(t) == <<t.dirty, t.executed, t.did_work, t.exception>>

\* C26: reconciling the task a worker returned leaves every underscore
\* attribute of the parent's task (project, actions, dependencies,
\* finalizers, the serialization marks) as it was, makes every public attribute
\* equal to the worker's, and touches no other task.
C26_ReconcileKeepsUnderscore ==
  [][\A id \in DOMAIN tasks :
       (WorkerRunStep(id) /\ outcome'.fifo_ok /\ tasks'[id].exception = NoError) =>
         /\ Underscore(tasks'[id]) = Underscore(tasks[id])
         /\ \E refs \in BOOLEAN :
              Public(tasks'[id]) =
                Public(WorkerExecute(Deserialized(tasks[id], id, refs)).task)
         /\ \A u \in DOMAIN tasks \ {id} : tasks'[u] = tasks[u]]_vars

\* Task b, which depends on a, came back from a worker that did work: it still
\* names its dependency and its project.
C26_Witness ==
  /\ outcome.op = "run" /\ outcome.task = "b" /\ ~outcome.sequential
  /\ tasks["b"].executed /\ tasks["b"].did_work /\ tasks["b"].exception = NoError
  /\ tasks["b"].dependencies = <<"a">>
  /\ tasks["b"].project = "project" /\ ~tasks["b"].is_deserialized

-----------------------------------------------------------------------------
(* Claims about the state tracker (TrackerSpec) *)

\* C23: a task path without a record has changed inputs; a task_finished for
\* a task without exception makes task_inputs_changed(task, J) false exactly
\* for the J whose digest is the digest of the inputs stored, one for a task
\* with an exception makes it true for every J; the answers for other paths
\* stay as they were, and asking changes no record.
C23_TrackerAlgebra ==
  [][/\ \A t \in DepTaskIds, j \in TrackerInputs :
          t \notin DOMAIN store => TaskInputsChanged(t, j, store)
     /\ outcome'.op = "task_finished" =>
          /\ \A j \in TrackerInputs :
               TaskInputsChanged(outcome'.task, j, store') =
                 (outcome'.failed \/ Md5sum(j) # Md5sum(outcome'.inputs))
          /\ \A u \in DepTaskIds \ {outcome'.task}, j \in TrackerInputs :
               /\ (u \in DOMAIN store') = (u \in DOMAIN store)
               /\ TaskInputsChanged(u, j, store') = TaskInputsChanged(u, j, store)
     /\ outcome'.op = "task_inputs_changed" =>
          /\ store' = store
          /\ outcome'.result =
               TaskInputsChanged(outcome'.task, outcome'.inputs, store)]_vars

\* Task b finished with the inputs it is asked about and a finished with a
\* failure: the tracker answered that b's inputs have not changed.
C23_Witness ==
  /\ outcome.op = "task_inputs_changed" /\ outcome.task = "b"
  /\ ~outcome.result
  /\ outcome.inputs # NewTaskInputs
  /\ "a" \in DOMAIN store /\ store["a"] = EmptyChecksum

-----------------------------------------------------------------------------
(* Claims about the digest of TaskInputs (HashSpec) *)

\* Two TaskInputs with equal files and values dicts.
SameInputs(i1, i2) == ODictEq(i1.files, i2.files) /\ ODictEq(i1.values, i2.values)

\* The file system with an empty file at every path that has none.
WithEmptyFiles(fs) == [p \in DOMAIN fs |-> [exists |-> TRUE, data |-> fs[p].data]]

\* The paths a TaskInputs lists.
Listed(inputs) ==
  UNION {{inputs.files[i][2][j] : j \in 1..Len(inputs.files[i][2])} :
           i \in 1..Len(inputs.files)}

\* C24: md5sum raises nothing; over the same files its digest is the digest
\* of another TaskInputs exactly when the two have equal files and values
\* dicts, in whatever order their keys were inserted (so a changed value or
\* path changes it); a listed path without a file counts like an empty file;
\* and rewriting an existing listed file with other bytes changes the digest.
C24_DigestStableAndSensitive ==
  [][/\ outcome'.op = "md5sum" =>
          LET o == outcome'.task
          IN /\ outcome'.raised = NoError
             /\ \A u \in HashObjs :
                  (outcome'.digest = TaskInputsMd5sum(hash[u], hash.fs))
                    = SameInputs(hash[o], hash[u])
             /\ outcome'.digest = TaskInputsMd5sum(hash[o], WithEmptyFiles(hash.fs))
     /\ hash'.fs # hash.fs =>
          \A o \in HashObjs : \A p \in Listed(hash[o]) :
            (hash.fs[p].exists /\ hash'.fs[p].exists /\ hash'.fs[p].data # hash.fs[p].data)
              => TaskInputsMd5sum(hash'[o], hash'.fs) # TaskInputsMd5sum(hash[o], hash.fs)]_vars

\* The digest was taken of x, whose values were inserted b first and which
\* lists g (a file of one byte) and f (no file); y holds the same, inserted a
\* first.
C24_Witness ==
  /\ outcome.op = "md5sum" /\ outcome.task = "x"
  /\ hash.x.values = <<<<"b", "2">>, <<"a", "1">>>>
  /\ hash.y.values = <<<<"a", "1">>, <<"b", "2">>>>
  /\ hash.x.files = <<<<"a", <<"g", "f">>>>>> /\ hash.y.files = hash.x.files
  /\ ~hash.fs["f"].exists /\ hash.fs["g"].data = <<"x">>
  /\ outcome.digest = TaskInputsMd5sum(hash.y, hash.fs)

-----------------------------------------------------------------------------
(* Claims about the captured output (StreamSpec) *)

\* C25 as stated: when stream_func_async has returned or raised, the bytes
\* given to on_output, which become the output of task_execute_end, are all
\* the bytes the worker wrote, in order.
C25_AsClaimed ==
  stream.parent \in {"returned", "raised"} => stream.captured = stream.written

-----------------------------------------------------------------------------
(* Claims about the project tree (TreeSpec) *)

\* The dict a registration goes into.
RegistryOf(tr, op, p) ==
  CASE op = "task" -> tr.tasks[p]
    [] op = "register_extension" -> tr.extensions[p]
    [] op = "add_child_project" -> tr.children[p]

\* C29: a task(), register_extension() or add_child_project() under a name
\* already in use raises ValueError and leaves the tasks, extensions and
\* children of every project as they were, so each name keeps the object
\* first registered under it; under a new name the call registers its object
\* and leaves every other entry alone.
C29_FirstRegistrationWins ==
  [][outcome'.op \in {"task", "register_extension", "add_child_project"}
       /\ outcome'.raised # AssertionError =>
         LET p == outcome'.task
             name == outcome'.name
             before == RegistryOf(tree, outcome'.op, p)
             after == RegistryOf(tree', outcome'.op, p)
         IN IF name \in ODictKeys(before)
              THEN outcome'.raised = ValueError /\ tree' = tree
              ELSE /\ outcome'.raised = NoError
                   /\ name \in ODictKeys(after)
                   /\ \A k \in ODictKeys(before) :
                        ODictGet(after, k) = ODictGet(before, k)]_vars

\* The project app holds a task build of the group run, the root holds the
\* extension o1 and the child app: a second task build was just refused.
C29_Witness ==
  /\ outcome.op = "task" /\ outcome.task = "app" /\ outcome.raised = ValueError
  /\ <<"build">> \in ODictKeys(tree.tasks["app"])
  /\ ODictGet(tree.tasks["app"], <<"build">>).group = <<"run">>
  /\ tree.extensions["root"] = <<<< <<"ext">>, "o1" >>>>
  /\ tree.children["root"] = <<<< <<"app">>, "app" >>>>

\* C30 as stated: the path of a task is its project's path, a colon and its
\* name, and no two tasks of the projects of the tree have the same path.
C30_AsClaimed ==
  LET all == IterAllTasks(tree, "root")
  IN \A i, j \in 1..Len(all) :
       /\ TaskPath(all[i]) = ProjectPath(all[i].project) \o all[i].name
       /\ i # j => TaskPath(all[i]) # TaskPath(all[j])

-----------------------------------------------------------------------------
(* Claims about task selectors (SelectSpec) *)

\* What a selector is to match: ":group" the tasks of that group, a path led
\* by a colon the task of that path, a bare name the tasks whose path ends
\* in that segment.
SelectorMatches(arg, task) ==
  IF StartsWithColon(arg)
    THEN \/ Len(arg) = 2 /\ task.group = <<arg[2]>>
         \/ TaskPath(task) = Tail(arg)
    ELSE Len(arg) = 1 /\ TaskPath(task)[Len(TaskPath(task))] = arg[1]

\* The tasks of the tree that a selector matches.
MatchedBy(arg) ==
  LET all == IterAllTasks(tree, "root")
  IN {all[i] : i \in {k \in 1..Len(all) : SelectorMatches(arg, all[k])}}

\* C27 as stated: when every selector matches a task, resolve_tasks returns
\* the tasks that some selector matches, each once.
C27_AsClaimed ==
  (/\ outcome.op = "resolve_tasks"
   /\ \A j \in 1..Len(outcome.selectors) : MatchedBy(outcome.selectors[j]) # {})
    => /\ outcome.raised = NoError
       /\ {outcome.selected[i] : i \in 1..Len(outcome.selected)}
            = UNION {MatchedBy(outcome.selectors[j]) : j \in 1..Len(outcome.selectors)}
       /\ \A i, k \in 1..Len(outcome.selected) :
            i # k => outcome.selected[i] # outcome.selected[k]

\* C28 as stated: resolve_tasks raises exactly when a selector matches no
\* task, and the error names the selectors that match none.
C28_AsClaimed ==
  outcome.op = "resolve_tasks" =>
    LET none == {outcome.selectors[j] : j \in
                   {k \in 1..Len(outcome.selectors) :
                      MatchedBy(outcome.selectors[k]) = {}}}
    IN /\ (outcome.raised # NoError) = (none # {})
       /\ outcome.raised # NoError => outcome.unmatched = none

-----------------------------------------------------------------------------
(* Claims about the calls on a BuildGraph (NodeSpec) *)

\* The tasks a build script declared as dependencies of x: those handed to
\* depends_on and those compute_all_dependencies finds behind x's properties.
DeclaredDependencies(x) ==
  TaskSet(tasks[x].dependencies) \cup ComputeAllDependencies(x, tasks, props).found

RECURSIVE LinkClosure(_, _)
\* The tasks reached from those of S over at most n dependency or finalizer
\* links.
LinkClosure(S, n) ==
  IF n = 0 THEN S
  ELSE LinkClosure(S \cup UNION {DeclaredDependencies(x) \cup TaskSet(tasks[x].finalizers) :
                                   x \in S}, n - 1)

\* C31 as stated: after add_task(t), t and every task reachable from t over
\* dependency or finalizer links is a node, with the edge d -> x for each
\* dependency d and the edge x -> f for each finalizer f of such a task x;
\* add_task on a task that is a node already changes neither nodes nor edges.
C31_AsClaimed ==
  [][outcome'.op = "add_task" =>
       LET t == outcome'.task
       IN /\ t \in graph.seen =>
               graph'.seen = graph.seen /\ graph'.edges = graph.edges
          /\ \A x \in LinkClosure({t}, Cardinality(DOMAIN tasks)) :
               /\ x \in graph'.seen
               /\ \A d \in DeclaredDependencies(x) : <<d, x>> \in graph'.edges
               /\ \A f \in TaskSet(tasks[x].finalizers) : <<x, f>> \in graph'.edges]_vars

RECURSIVE DependencyClosure(_, _)
\* The tasks of S and their dependencies over at most n links.
DependencyClosure(S, n) ==
  IF n = 0 THEN S
  ELSE DependencyClosure(S \cup UNION {DeclaredDependencies(x) : x \in S}, n - 1)

C33_AsClaimed ==
  DependencyClosure(graph.selected, Cardinality(DOMAIN tasks)) \subseteq graph.seen

-----------------------------------------------------------------------------
(* Claims about the listener notifications of run() (Spec) *)

\* C34 as stated: a run() of a task that is not executed appends to what the
\* listener was told task_execute_begin(task) and then task_execute_end(task,
\* output), and nothing else, also when the task fails; a run() of an executed
\* task tells the listener nothing and leaves the task as it is.
C34_AsClaimed ==
  [][outcome'.op = "run" =>
       LET id == outcome'.task
       IN /\ tasks[id].executed =>
               events' = events /\ tasks' = tasks /\ ran' = ran
          /\ (~tasks[id].executed /\ outcome'.raised # AssertionError) =>
               events' = events \o <<BeginEvent(id), EndEvent(id, tasks'[id])>>]_vars

-----------------------------------------------------------------------------
(* Claims about the FIFO of stream_func_async (FifoSpec, FifoFairSpec) *)

\* C35 as stated: when create() has returned on the event, the mkfifo call of
\* the helper thread has completed, and so no worker opening the path makes
\* mkfifo fail on a regular file.
C35_AsClaimed ==
  /\ stream.on_event => stream.helper \in {"finally", "done"}
  /\ (stream.on_event /\ ~stream.timedout) => stream.exception # FileExistsError

\* C36 as stated: when the thread has not ended within the timeout,
\* open_read() raises the timeout error and returns no stream, and once
\* stream_func_async has returned or raised the path names nothing.
C36_AsClaimed ==
  /\ stream.timedout =>
       /\ stream.main \in {"timeout_open", "timeout_remove", "timeout_join",
                           "exit", "raised"}
       /\ stream.main \in {"exit", "raised"} => stream.pending = FifoTimeout
  /\ stream.main \in {"returned", "raised"} => stream.node = "none"

\* C37 as stated: under fair scheduling, with a task function that ends once
\* its bytes are written, stream_func_async returns or raises.
C37_AsClaimed == <>(stream.main \in {"returned", "raised"})

-----------------------------------------------------------------------------
(* Claims about get_task_inputs (MarkerSpec) *)

\* C38 as stated: get_task_inputs() raises only for a property marked
\* InputFile or InputDir whose value is neither a str nor a list; else an
\* Input property gives values[name] its value, an InputFile or InputDir
\* property gives files[name] the list of its paths, and a property without
\* marker or with Output only gives nothing.
C38_AsClaimed ==
  outcome.op = "get_task_inputs" =>
    LET FileMarked(k) == props[k].markers \cap {"InputFile", "InputDir"} # {}
        values == outcome.inputs.values
        files == outcome.inputs.files
    IN /\ (outcome.raised # NoError) =
            (\E k \in {"p", "q"} :
               FileMarked(k) /\ props[k].value.type \notin {"str", "list"})
       /\ outcome.raised = NoError =>
            \A k \in {"p", "q"} :
              /\ "Input" \in props[k].markers =>
                   k \in ODictKeys(values) /\ ODictGet(values, k) = props[k].value
              /\ FileMarked(k) =>
                   k \in ODictKeys(files) /\ ODictGet(files, k) = props[k].value.v
              /\ props[k].markers \subseteq {"Output"} =>
                   k \notin ODictKeys(values) \cup ODictKeys(files)

-----------------------------------------------------------------------------
(* Claims about the cached final value (SnapSpec) *)

\* A final value is cached in p: p is finalized and no first read is awaited.
Cached(p, ps) == ps[p].finalized /\ ~ps[p].finalize_on_read

\* C39: a property that holds a cached final value holds it after every call
\* of set, default, get, finalize, finalize_on_read, add or extend on itself
\* or on an upstream property: it stays finalized, and get() answers as
\* before.
C39_SnapshotIsImmutable ==
  [][\A p \in DOMAIN props :
       Cached(p, props) =>
         /\ Cached(p, props')
         /\ GetAnswer(p, props') = GetAnswer(p, props)]_vars

\* C39 witness: p2 holds the final value 1, cached when its value was 1, and
\* add() has since replaced the value by a mapping that evaluates to 2.
C39_Witness ==
  /\ Cached("p2", props)
  /\ props["p2"].final_value = 1
  /\ props["p2"].value = Mapped(<<"succ">>, Box(1))
  /\ GetAnswer("p2", props) = 1
  /\ FreshAnswer("p2", props) = 2

\* C40: a finalize() that raises NoValuePresent leaves the finalized flag,
\* the finalize_on_read flag, the value and the default of the property as
\* they were; if the property was not finalized, every set() is accepted
\* afterwards, and after a set() of a value finalize() succeeds.
C40_FailedFinalizeChangesNothing ==
  [][(outcome' # outcome /\ outcome'.raised = NoValuePresent) =>
       LET p == outcome'.task
       IN /\ props'[p].finalized = props[p].finalized
          /\ props'[p].finalize_on_read = props[p].finalize_on_read
          /\ props'[p].value = props[p].value
          /\ props'[p].default = props[p].default
          /\ props'[p].default_func = props[p].default_func
          /\ ~props[p].finalized =>
               /\ \A x \in RawValues : ~PropertySet(p, x, props').raised
               /\ \A v \in Values :
                    PropertyFinalize(p, PropertySet(p, <<"raw", v>>, props').ps).ok]_vars

\* C40 witness: finalize() has just failed on p2, which is not finalized; its
\* value is p1, which holds nothing, and it has no default.
C40_Witness ==
  /\ outcome.op = "finalize" /\ outcome.task = "p2"
  /\ outcome.raised = NoValuePresent
  /\ ~props["p2"].finalized
  /\ props["p2"].value = Ref("p1")
  /\ FreshAnswer("p2", props) = NoValue

====
